---- MODULE Spec2Model ----
(***************************************************************************)
(* Rental reporting of the Myfintech API (api/app/routers/reports.py):     *)
(* the period resolver, the cash-flow aggregator, the metrics calculator,  *)
(* the IRR solver and the portfolio aggregator.                            *)
(*                                                                         *)
(* Conventions of the model                                                *)
(*   date      an integer yyyymmdd (20250615), so that < on integers is <  *)
(*             on dates; a NULL date column is NoDate (0).                 *)
(*   datetime  <<date, hour>>; a NULL datetime column is None (<<>>).      *)
(*   money     an integer number of 1/12 cent ("units"): the code divides  *)
(*             2-decimal amounts by 3 and by 12, which stays exact in      *)
(*             units.  round(x, 2) is Round2, to whole cents, half-even.   *)
(*             The report's fields are in cents, as the code rounds them.  *)
(*   optional  a value that may be None is a sequence: <<>> or <<v>>.      *)
(***************************************************************************)
EXTENDS Integers, Sequences, FiniteSets, TLC

VARIABLES
    properties_tbl,   \* Property rows
    units,            \* Unit rows
    leases,           \* Lease rows
    charges,          \* RentCharge rows
    payments,         \* Payment rows
    costs,            \* PropertyCost rows
    maint,            \* MaintenanceExpense rows
    loans,            \* Loan rows
    events,           \* CapitalEvent rows
    today,            \* date.today()
    request,          \* the arguments of the last call of an endpoint
    response,         \* what that call returned: [status, body]
    irr_in,           \* the cash-flow list last handed to _irr
    irr_out,          \* what _irr did with it
    pf_pc,            \* portfolio_report: position of the handler
    pf_props,         \* portfolio_report: the ids of the list `properties`
    pf_i,             \* portfolio_report: index of the next property of the loop
    pf_reports,       \* portfolio_report: the list `reports` built so far
    pf_skipped        \* portfolio_report: the ids logged as skipped

store == <<properties_tbl, units, leases, charges, payments, costs, maint, loans, events>>
irr_vars == <<irr_in, irr_out>>
pf_vars == <<pf_pc, pf_props, pf_i, pf_reports, pf_skipped>>
vars == <<store, today, request, response, irr_vars, pf_vars>>

None == <<>>
NoDate == 0

----------------------------------------------------------------------------
(* Bounds of the model.                                                    *)

\* at most this many rows of each table of one property
MaxRecords == 2
\* at most this many cash flows in a list handed to _irr directly
MaxFlows == 3
\* at most this many properties in the household of the portfolio report
MaxProps == 2

----------------------------------------------------------------------------
(* Arithmetic helpers.                                                     *)

Cents(c) == c * 12

Max(a, b) == IF a >= b THEN a ELSE b

Abs(a) == IF a >= 0 THEN a ELSE 0 - a

\* n / d rounded to the nearest integer, ties to the even one (d > 0)
RoundHalfEven(n, d) ==
    LET q == n \div d
        r == n % d
    IN  IF 2 * r < d THEN q
        ELSE IF 2 * r > d THEN q + 1
        ELSE IF q % 2 = 0 THEN q ELSE q + 1

\* x * m / d rounded to the nearest integer, ties to even, without forming
\* x * m (0 <= m, 0 < d)
MulDivRound(x, m, d) ==
    LET n == (x % d) * m
        q == (x \div d) * m + (n \div d)
        r == n % d
    IN  IF 2 * r < d THEN q
        ELSE IF 2 * r > d THEN q + 1
        ELSE IF q % 2 = 0 THEN q ELSE q + 1

\* round(x, 2) of an amount in units, as whole cents
Round2(x) == RoundHalfEven(x, 12)

RECURSIVE SumField(_, _)
SumField(S, f) ==
    IF S = {} THEN 0
    ELSE LET x == CHOOSE y \in S : TRUE
         IN  x[f] + SumField(S \ {x}, f)

----------------------------------------------------------------------------
(* Dates.                                                                  *)

MkDate(y, m, d) == y * 10000 + m * 100 + d
YearOf(d) == d \div 10000
MonthOf(d) == (d \div 100) % 100

IsLeap(y) == (y % 4 = 0 /\ y % 100 # 0) \/ y % 400 = 0

\* calendar.monthrange(year, month)[1]
monthrange(y, m) ==
    IF m \in {4, 6, 9, 11} THEN 30
    ELSE IF m = 2 THEN (IF IsLeap(y) THEN 29 ELSE 28)
    ELSE 31

\* _parse_month(f"{year:04d}-{month:02d}") for a 4-digit year and month 1..12
_parse_month(year, mon) == <<MkDate(year, mon, 1), MkDate(year, mon, monthrange(year, mon))>>

_quarter_range(year, month) ==
    LET q == (month - 1) \div 3
        q_start_month == q * 3 + 1
        q_end_month == q_start_month + 2
    IN  <<MkDate(year, q_start_month, 1),
          MkDate(year, q_end_month, monthrange(year, q_end_month))>>

_year_range(year) == <<MkDate(year, 1, 1), MkDate(year, 12, 31)>>

_prior_year_range(year) == <<MkDate(year - 1, 1, 1), MkDate(year - 1, 12, 31)>>

\* purchase_date.date(): the date of a datetime
DateOfDatetime(dt) == dt[1]

_bound_by_purchase_keeps_early_range(start, end, purchase_date) ==
    IF purchase_date = None THEN <<start, end>>
    ELSE LET pd == DateOfDatetime(purchase_date)
         IN  IF end < pd THEN <<start, end>>
             ELSE IF start < pd THEN <<pd, end>>
             ELSE <<start, end>>

_bound_by_purchase(start, end, purchase_date) ==
    IF purchase_date = None THEN <<start, end>>
    ELSE LET pd == DateOfDatetime(purchase_date)
         IN  IF end < pd THEN <<end, end>>
             ELSE IF start < pd THEN <<pd, end>>
             ELSE <<start, end>>

\* the months elapsed between the two dates, the first not counted
months_in_period_exclusive(d_start, d_end) ==
    (YearOf(d_end) - YearOf(d_start)) * 12 + MonthOf(d_end) - MonthOf(d_start)

\* ((d_end.year - d_start.year) * 12 + d_end.month - d_start.month) + 1
months_in_period(d_start, d_end) ==
    ((YearOf(d_end) - YearOf(d_start)) * 12 + MonthOf(d_end) - MonthOf(d_start)) + 1

\* max(1, months) if end >= start else 0
bounded_months(d_start, d_end) ==
    IF d_end >= d_start THEN Max(1, months_in_period(d_start, d_end)) ELSE 0

----------------------------------------------------------------------------
(* Queries of _property_metrics against the store, for property p.         *)

PropertyRows(p) == {r \in properties_tbl : r.id = p}

\* scalar_one_or_none() of the Property query, when there is one
prop_of(p) == CHOOSE r \in properties_tbl : r.id = p

rentable_units(p) == {u \in units : u.property_id = p /\ u.is_rentable}

unit_ids(p) == {u.id : u \in rentable_units(p)}

\* count of active leases of the rentable units that started by m_end
occupied_month(p, m_end) ==
    LET uids == unit_ids(p)
    IN  IF uids = {} THEN 0
        ELSE Cardinality({l \in leases : /\ l.unit_id \in uids
                                         /\ l.status = "active"
                                         /\ l.lease_start <= m_end})

lease_ids(p) ==
    LET uids == unit_ids(p)
    IN  IF uids = {} THEN {}
        ELSE {l.id : l \in {x \in leases : x.unit_id \in uids}}

rent_charged(p, d_start, d_end) ==
    LET lids == lease_ids(p)
    IN  IF lids = {} THEN 0
        ELSE SumField({c \in charges : /\ c.lease_id \in lids
                                       /\ c.charge_date >= d_start
                                       /\ c.charge_date <= d_end}, "amount")

rent_roll(p, d_start, d_end) ==
    LET actual == rent_charged(p, d_start, d_end)
        uids == unit_ids(p)
    IN  IF actual > 0 THEN actual
        ELSE IF uids = {} THEN 0
        ELSE LET monthly ==
                     SumField({l \in leases :
                                  /\ l.unit_id \in uids
                                  /\ l.lease_start <= d_end
                                  /\ (l.lease_end = NoDate \/ l.lease_end >= d_start)
                                  /\ l.status = "active"}, "monthly_rent")
             IN  monthly * months_in_period(d_start, d_end)

rent_collected(p, d_start, d_end) ==
    LET lids == lease_ids(p)
    IN  IF lids = {} THEN 0
        ELSE SumField({x \in payments : /\ x.lease_id \in lids
                                        /\ x.payment_date >= d_start
                                        /\ x.payment_date <= d_end}, "amount")

maintenance_opex(p, d_start, d_end) ==
    SumField({x \in maint : /\ x.property_id = p
                            /\ x.is_capex = FALSE
                            /\ x.expense_date >= d_start
                            /\ x.expense_date <= d_end}, "amount")

maintenance_capex(p, d_start, d_end) ==
    SumField({x \in maint : /\ x.property_id = p
                            /\ x.is_capex = TRUE
                            /\ x.expense_date >= d_start
                            /\ x.expense_date <= d_end}, "amount")

cost_monthly_equiv_one_time_counted(c) ==
    IF ~c.is_active THEN 0
    ELSE IF c.frequency = "monthly" THEN c.amount
    ELSE IF c.frequency = "quarterly" THEN c.amount \div 3
    ELSE IF c.frequency = "annual" THEN c.amount \div 12
    ELSE c.amount

\* what one cost adds to the monthly equivalent
cost_monthly_equiv(c) ==
    IF ~c.is_active THEN 0
    ELSE IF c.frequency = "monthly" THEN c.amount
    ELSE IF c.frequency = "quarterly" THEN c.amount \div 3
    ELSE IF c.frequency = "annual" THEN c.amount \div 12
    ELSE 0

RECURSIVE property_costs_monthly_equiv(_)
property_costs_monthly_equiv(cs) ==
    IF cs = {} THEN 0
    ELSE LET c == CHOOSE x \in cs : TRUE
         IN  cost_monthly_equiv(c) + property_costs_monthly_equiv(cs \ {c})

active_costs(p) == {c \in costs : c.property_id = p /\ c.is_active = TRUE}

monthly_fixed_costs(p) == property_costs_monthly_equiv(active_costs(p))

category_monthly_equiv(p, cat) ==
    property_costs_monthly_equiv({c \in active_costs(p) : c.category = cat})

monthly_other_fixed_keeps_insurance(p) ==
    monthly_fixed_costs(p) - category_monthly_equiv(p, "property_tax")
        - category_monthly_equiv(p, "hoa")

monthly_other_fixed(p) ==
    monthly_fixed_costs(p) - category_monthly_equiv(p, "property_tax")
        - category_monthly_equiv(p, "insurance") - category_monthly_equiv(p, "hoa")

loans_of(p) == {l \in loans : l.property_id = p}

monthly_debt_service(p) == SumField(loans_of(p), "monthly_payment")
total_original_loan_amount(p) == SumField(loans_of(p), "original_amount")
total_current_balance(p) == SumField(loans_of(p), "current_balance")

\* round(charged * float(management_fee_pct) / 100, 2), in cents; the pct is
\* held in hundredths of a percent (8.00 is 800)
mgmt_fee(p, charged) ==
    IF prop_of(p).is_property_managed /\ prop_of(p).management_fee_pct # 0
    THEN MulDivRound(charged, prop_of(p).management_fee_pct, 120000)
    ELSE 0

expense_bd(p, months, repairs, charged) ==
    [loan_payment   |-> Round2(monthly_debt_service(p) * months),
     property_tax   |-> Round2(category_monthly_equiv(p, "property_tax") * months),
     insurance      |-> Round2(category_monthly_equiv(p, "insurance") * months),
     hoa            |-> Round2(category_monthly_equiv(p, "hoa") * months),
     other_fixed    |-> Round2(monthly_other_fixed(p) * months),
     repairs        |-> Round2(repairs),
     management_fee |-> mgmt_fee(p, charged)]

----------------------------------------------------------------------------
(* The period resolver: the five ranges of an anchor, clipped by the       *)
(* purchase date of the property.                                          *)

m_range(p, year, month) ==
    LET r == _parse_month(year, month)
    IN  _bound_by_purchase(r[1], r[2], prop_of(p).purchase_date)

q_range(p, year, month) ==
    LET r == _quarter_range(year, month)
    IN  _bound_by_purchase(r[1], r[2], prop_of(p).purchase_date)

y_range(p, year) ==
    LET r == _year_range(year)
    IN  _bound_by_purchase(r[1], r[2], prop_of(p).purchase_date)

py_range(p, year) ==
    LET r == _prior_year_range(year)
    IN  _bound_by_purchase(r[1], r[2], prop_of(p).purchase_date)

\* Jan 1 of the year through m_end, the end of the (clipped) month range
ytd_range(p, year, month) ==
    _bound_by_purchase(MkDate(year, 1, 1), m_range(p, year, month)[2],
                       prop_of(p).purchase_date)

----------------------------------------------------------------------------
(* More arithmetic: day counts, ratios rounded to a number of decimals,    *)
(* sorted lists.                                                           *)

RECURSIVE DaysBeforeMonth(_, _)
DaysBeforeMonth(y, m) ==
    IF m <= 1 THEN 0 ELSE monthrange(y, m - 1) + DaysBeforeMonth(y, m - 1)

\* date.toordinal(): (a - b).days is ToOrdinal(a) - ToOrdinal(b)
ToOrdinal(d) ==
    LET y == YearOf(d) - 1
    IN  365 * y + (y \div 4) - (y \div 100) + (y \div 400)
            + DaysBeforeMonth(YearOf(d), MonthOf(d)) + (d % 100)

\* <<q, r>> with n * 10^k = q * d + r and 0 <= r < d, by long division
RECURSIVE LongDiv(_, _, _)
LongDiv(n, d, k) ==
    IF k = 0 THEN <<n \div d, n % d>>
    ELSE LET qr == LongDiv(n, d, k - 1)
         IN  <<qr[1] * 10 + ((qr[2] * 10) \div d), (qr[2] * 10) % d>>

\* round(n / d * 10^k) to the nearest integer, ties to even (d > 0)
ScaledRatio(n, d, k) ==
    LET qr == LongDiv(n, d, k)
    IN  IF 2 * qr[2] < d THEN qr[1]
        ELSE IF 2 * qr[2] > d THEN qr[1] + 1
        ELSE IF qr[1] % 2 = 0 THEN qr[1] ELSE qr[1] + 1

\* the rows of S as a list in ascending order of their field f
RECURSIVE SortedBy(_, _)
SortedBy(S, f) ==
    IF S = {} THEN <<>>
    ELSE LET x == CHOOSE y \in S : \A z \in S : y[f] <= z[f]
         IN  <<x>> \o SortedBy(S \ {x}, f)

\* the rows of S as a list in descending order of their field f
RECURSIVE SortedDescBy(_, _)
SortedDescBy(S, f) ==
    IF S = {} THEN <<>>
    ELSE LET x == CHOOSE y \in S : \A z \in S : y[f] >= z[f]
         IN  <<x>> \o SortedDescBy(S \ {x}, f)

----------------------------------------------------------------------------
(* The unrounded figures of each period block, as the local variables of   *)
(* _property_metrics hold them (in units).                                 *)

monthly_locals_noi_without_fixed(p, year, month) ==
    LET s == m_range(p, year, month)[1]
        e == m_range(p, year, month)[2]
        m_collected == rent_collected(p, s, e)
        m_opex_maint == maintenance_opex(p, s, e)
        m_opex == m_opex_maint + monthly_fixed_costs(p)
        m_noi == m_collected - m_opex_maint
    IN  [charged |-> rent_roll(p, s, e),
         collected |-> m_collected,
         opex_maint |-> m_opex_maint,
         opex |-> m_opex,
         capex |-> maintenance_capex(p, s, e),
         noi |-> m_noi,
         debt |-> monthly_debt_service(p),
         cash_flow |-> m_noi - monthly_debt_service(p),
         months |-> 1]

monthly_locals(p, year, month) ==
    LET s == m_range(p, year, month)[1]
        e == m_range(p, year, month)[2]
        m_collected == rent_collected(p, s, e)
        m_opex_maint == maintenance_opex(p, s, e)
        m_opex == m_opex_maint + monthly_fixed_costs(p)
        m_noi == m_collected - m_opex
    IN  [charged |-> rent_roll(p, s, e),
         collected |-> m_collected,
         opex_maint |-> m_opex_maint,
         opex |-> m_opex,
         capex |-> maintenance_capex(p, s, e),
         noi |-> m_noi,
         debt |-> monthly_debt_service(p),
         cash_flow |-> m_noi - monthly_debt_service(p),
         months |-> 1]

quarterly_locals_one_month_debt(p, year, month) ==
    LET s == q_range(p, year, month)[1]
        e == q_range(p, year, month)[2]
        q_collected == rent_collected(p, s, e)
        q_opex_maint == maintenance_opex(p, s, e)
        q_months == months_in_period(s, e)
        q_opex == q_opex_maint + monthly_fixed_costs(p) * q_months
        q_debt == monthly_debt_service(p) * q_months
        q_noi == q_collected - q_opex
    IN  [charged |-> rent_roll(p, s, e),
         collected |-> q_collected,
         opex_maint |-> q_opex_maint,
         opex |-> q_opex,
         noi |-> q_noi,
         debt |-> q_debt,
         cash_flow |-> q_noi - monthly_debt_service(p),
         months |-> q_months]

quarterly_locals(p, year, month) ==
    LET s == q_range(p, year, month)[1]
        e == q_range(p, year, month)[2]
        q_collected == rent_collected(p, s, e)
        q_opex_maint == maintenance_opex(p, s, e)
        q_months == months_in_period(s, e)
        q_opex == q_opex_maint + monthly_fixed_costs(p) * q_months
        q_debt == monthly_debt_service(p) * q_months
        q_noi == q_collected - q_opex
    IN  [charged |-> rent_roll(p, s, e),
         collected |-> q_collected,
         opex_maint |-> q_opex_maint,
         opex |-> q_opex,
         noi |-> q_noi,
         debt |-> q_debt,
         cash_flow |-> q_noi - q_debt,
         months |-> q_months]

ytd_locals(p, year, month) ==
    LET s == ytd_range(p, year, month)[1]
        e == ytd_range(p, year, month)[2]
        ytd_months == bounded_months(s, e)
        ytd_collected == rent_collected(p, s, e)
        ytd_opex_maint == maintenance_opex(p, s, e)
        ytd_opex == ytd_opex_maint + monthly_fixed_costs(p) * ytd_months
        ytd_debt == monthly_debt_service(p) * ytd_months
        ytd_noi == ytd_collected - ytd_opex
    IN  [charged |-> rent_roll(p, s, e),
         collected |-> ytd_collected,
         opex_maint |-> ytd_opex_maint,
         opex |-> ytd_opex,
         capex |-> maintenance_capex(p, s, e),
         noi |-> ytd_noi,
         debt |-> ytd_debt,
         cash_flow |-> ytd_noi - ytd_debt,
         months |-> ytd_months]

annual_locals(p, year) ==
    LET s == y_range(p, year)[1]
        e == y_range(p, year)[2]
        y_months == bounded_months(s, e)
        y_collected == rent_collected(p, s, e)
        y_opex_maint == maintenance_opex(p, s, e)
        y_opex == y_opex_maint + monthly_fixed_costs(p) * y_months
        y_debt == monthly_debt_service(p) * y_months
        y_noi == y_collected - y_opex
    IN  [charged |-> rent_roll(p, s, e),
         collected |-> y_collected,
         opex_maint |-> y_opex_maint,
         opex |-> y_opex,
         capex |-> maintenance_capex(p, s, e),
         noi |-> y_noi,
         debt |-> y_debt,
         cash_flow |-> y_noi - y_debt,
         months |-> y_months]

py_noi(p, year) ==
    LET s == py_range(p, year)[1]
        e == py_range(p, year)[2]
    IN  rent_collected(p, s, e)
            - (maintenance_opex(p, s, e) + monthly_fixed_costs(p) * bounded_months(s, e))

total_equity_invested(p) ==
    prop_of(p).purchase_price + prop_of(p).closing_costs - total_original_loan_amount(p)

current_equity(p) == prop_of(p).current_value - total_current_balance(p)

\* in hundredths of a percent, or None
cash_on_cash_ytd(p, year, month) ==
    IF total_equity_invested(p) > 0
    THEN <<ScaledRatio(ytd_locals(p, year, month).cash_flow, total_equity_invested(p), 4)>>
    ELSE None

\* in tenths of a percent, or None
noi_yoy_pct(p, year) ==
    IF py_noi(p, year) # 0
    THEN <<ScaledRatio(annual_locals(p, year).noi - py_noi(p, year), Abs(py_noi(p, year)), 3)>>
    ELSE None

cap_rate_from_cash_flow(p, year) ==
    IF prop_of(p).current_value > 0
    THEN <<ScaledRatio(annual_locals(p, year).cash_flow, prop_of(p).current_value, 4)>>
    ELSE None

\* in hundredths of a percent, or None
cap_rate(p, year) ==
    IF prop_of(p).current_value > 0
    THEN <<ScaledRatio(annual_locals(p, year).noi, prop_of(p).current_value, 4)>>
    ELSE None

\* float(c.amount) / (3 | 1 | 12 | 1) * 12 of one cost
cost_annual_rollup(c) ==
    IF c.frequency = "quarterly" THEN c.amount * 4
    ELSE IF c.frequency = "monthly" THEN c.amount * 12
    ELSE IF c.frequency = "annual" THEN c.amount
    ELSE c.amount * 12

RECURSIVE SumRollup(_)
SumRollup(cs) ==
    IF cs = {} THEN 0
    ELSE LET c == CHOOSE x \in cs : TRUE
         IN  cost_annual_rollup(c) + SumRollup(cs \ {c})

tax_total(p) == SumRollup({c \in active_costs(p) : c.category = "property_tax"})

insurance_total(p) == SumRollup({c \in active_costs(p) : c.category = "insurance"})

----------------------------------------------------------------------------
(* Quarterly extras: maintenance by category, turnover, vacancy.           *)

expense_by_category(p, year, month) ==
    LET s == q_range(p, year, month)[1]
        e == q_range(p, year, month)[2]
        rows == {x \in maint : /\ x.property_id = p
                               /\ x.expense_date >= s
                               /\ x.expense_date <= e}
        groups == {[category |-> c,
                    total |-> SumField({x \in rows : x.category = c}, "amount")] :
                       c \in {x.category : x \in rows}}
    IN  SortedDescBy(groups, "total")

ended_leases(p, year, month) ==
    IF unit_ids(p) = {} THEN {}
    ELSE {l \in leases : /\ l.unit_id \in unit_ids(p)
                         /\ l.status = "ended"
                         /\ l.move_out_date # NoDate
                         /\ l.move_out_date >= q_range(p, year, month)[1]
                         /\ l.move_out_date <= q_range(p, year, month)[2]}

\* the leases of the same unit that start after the move-out
next_leases(ended) ==
    {l \in leases : l.unit_id = ended.unit_id /\ l.lease_start > ended.move_out_date}

\* (next_lease.lease_start - ended.move_out_date).days of the earliest next lease
vacancy_days(ended) ==
    LET nxt == CHOOSE l \in next_leases(ended) :
                   \A o \in next_leases(ended) : l.lease_start <= o.lease_start
    IN  ToOrdinal(nxt.lease_start) - ToOrdinal(ended.move_out_date)

RECURSIVE SumVacancy(_)
SumVacancy(S) ==
    IF S = {} THEN 0
    ELSE LET x == CHOOSE y \in S : TRUE
         IN  vacancy_days(x) + SumVacancy(S \ {x})

\* round(avg_vacancy_days, 1), in tenths of a day
avg_vacancy_days(p, year, month) ==
    LET matched == {l \in ended_leases(p, year, month) : next_leases(l) # {}}
    IN  IF matched = {} THEN 0
        ELSE RoundHalfEven(SumVacancy(matched) * 10, Cardinality(matched))

----------------------------------------------------------------------------
(* The IRR solver.  A cash flow is <<date, amount>>.                       *)

\* sorted(cash_flows, key=lambda x: x[0]): a stable insertion sort
RECURSIVE InsertByDate(_, _)
InsertByDate(sorted, cf) ==
    IF sorted = <<>> THEN <<cf>>
    ELSE IF cf[1] < Head(sorted)[1] THEN <<cf>> \o sorted
    ELSE <<Head(sorted)>> \o InsertByDate(Tail(sorted), cf)

RECURSIVE SortByDate(_)
SortByDate(cfs) ==
    IF cfs = <<>> THEN <<>>
    ELSE LET n == Len(cfs)
         IN  InsertByDate(SortByDate(SubSeq(cfs, 1, n - 1)), cfs[n])

\* r = 0.10, as round(r * 100, 2) in hundredths of a percent
InitialGuessBp == 1000

\* The Newton loop on amounts[i] at times[i] = days[i] / 365.25.  TLA+ has
\* no reals: the loop is evaluated where integers decide it.  When every
\* time is 0, npv_prime(r) is a sum of terms -0 * a / (1 + r): it is 0 for
\* every r, the first pass takes the branch abs(fp) < 1e-12 and breaks with
\* r = 0.10, and 0.10 is finite and > -1, so round(r * 100, 2) = 10.0 is
\* returned.  For any other list the result is left as kind "float": what
\* the floating-point iteration gives, which the model does not evaluate.
newton(amounts, days) ==
    IF \A i \in 1..Len(days) : days[i] = 0
    THEN [kind |-> "rate", exit |-> "flat", bp |-> InitialGuessBp, looped |-> TRUE]
    ELSE [kind |-> "float", exit |-> "loop", bp |-> 0, looped |-> TRUE]

_irr_strict_sign_guard(cash_flows) ==
    IF Len(cash_flows) < 2
    THEN [kind |-> "none", exit |-> "too_few", bp |-> 0, looped |-> FALSE]
    ELSE LET sorted == SortByDate(cash_flows)
             t0 == sorted[1][1]
             days == [i \in 1..Len(sorted) |-> ToOrdinal(sorted[i][1]) - ToOrdinal(t0)]
             amounts == [i \in 1..Len(sorted) |-> sorted[i][2]]
         IN  IF \/ \A i \in 1..Len(amounts) : amounts[i] > 0
                \/ \A i \in 1..Len(amounts) : amounts[i] < 0
             THEN [kind |-> "none", exit |-> "sign", bp |-> 0, looped |-> FALSE]
             ELSE newton(amounts, days)

_irr(cash_flows) ==
    IF Len(cash_flows) < 2
    THEN [kind |-> "none", exit |-> "too_few", bp |-> 0, looped |-> FALSE]
    ELSE LET sorted == SortByDate(cash_flows)
             t0 == sorted[1][1]
             days == [i \in 1..Len(sorted) |-> ToOrdinal(sorted[i][1]) - ToOrdinal(t0)]
             amounts == [i \in 1..Len(sorted) |-> sorted[i][2]]
         IN  IF \/ \A i \in 1..Len(amounts) : amounts[i] >= 0
                \/ \A i \in 1..Len(amounts) : amounts[i] <= 0
             THEN [kind |-> "none", exit |-> "sign", bp |-> 0, looped |-> FALSE]
             ELSE newton(amounts, days)

\* NPV of the list at r = 0.10 when all its flows share one date: every
\* discount factor is (1 + r)^0 = 1
npv_same_date(cash_flows) ==
    SumField({[i |-> i, amount |-> cash_flows[i][2]] : i \in 1..Len(cash_flows)}, "amount")

----------------------------------------------------------------------------
(* The cash-flow series _property_metrics hands to _irr.                   *)

capital_events(p) == SortedBy({e \in events : e.property_id = p}, "event_date")

\* purchase_date, else the earliest payment date, else nothing (NoDate)
resolved_purchase_date(p) ==
    IF prop_of(p).purchase_date # None THEN DateOfDatetime(prop_of(p).purchase_date)
    ELSE IF lease_ids(p) # {}
    THEN LET ps == {x \in payments : x.lease_id \in lease_ids(p)}
         IN  IF ps = {} THEN NoDate
             ELSE (CHOOSE x \in ps : \A o \in ps : x.payment_date <= o.payment_date).payment_date
    ELSE NoDate

has_acquisition(p) == \E e \in events : e.property_id = p /\ e.event_type = "acquisition"

\* the synthetic acquisition is added whatever the recorded events are
cf_head_acquisition_twice(p) ==
    (IF resolved_purchase_date(p) # NoDate /\ total_equity_invested(p) > 0
     THEN <<<<resolved_purchase_date(p), 0 - total_equity_invested(p)>>>>
     ELSE <<>>)
    \o [i \in 1..Len(capital_events(p)) |->
            <<capital_events(p)[i].event_date, capital_events(p)[i].amount>>]

\* the synthetic acquisition followed by the recorded events
cf_head(p) ==
    (IF ~has_acquisition(p) /\ resolved_purchase_date(p) # NoDate
         /\ total_equity_invested(p) > 0
     THEN <<<<resolved_purchase_date(p), 0 - total_equity_invested(p)>>>>
     ELSE <<>>)
    \o [i \in 1..Len(capital_events(p)) |->
            <<capital_events(p)[i].event_date, capital_events(p)[i].amount>>]

\* the operating cash flow of year yr, appended in the loop over the years
yr_flow(p, yr, year) ==
    LET b == _bound_by_purchase(_year_range(yr)[1], _year_range(yr)[2],
                                prop_of(p).purchase_date)
        yr_s == b[1]
        yr_end_cap == IF yr < year THEN b[2] ELSE today
        yr_months == ((MonthOf(yr_end_cap) - MonthOf(yr_s)) + 1)
                         + (YearOf(yr_end_cap) - YearOf(yr_s)) * 12
        yr_opex == maintenance_opex(p, yr_s, yr_end_cap) + monthly_fixed_costs(p) * yr_months
        yr_debt == monthly_debt_service(p) * yr_months
    IN  <<IF yr < year THEN MkDate(yr, 12, 31) ELSE today,
          rent_collected(p, yr_s, yr_end_cap) - yr_opex - yr_debt>>

RECURSIVE yr_flows(_, _, _)
yr_flows(p, from, year) ==
    IF from > year THEN <<>>
    ELSE <<yr_flow(p, from, year)>> \o yr_flows(p, from + 1, year)

cf_list(p, year) ==
    LET head == cf_head(p)
    IN  IF head = <<>> THEN <<>>
        ELSE head \o yr_flows(p, YearOf(head[1][1]), year)
                 \o (IF current_equity(p) > 0 THEN <<<<today, current_equity(p)>>>> ELSE <<>>)

irr_value(p, year) ==
    IF capital_events(p) # <<>>
           \/ (total_equity_invested(p) # 0 /\ resolved_purchase_date(p) # NoDate)
    THEN _irr(cf_list(p, year))
    ELSE [kind |-> "none", exit |-> "not_run", bp |-> 0, looped |-> FALSE]

----------------------------------------------------------------------------
(* The lifetime block, and the report _property_metrics returns.           *)

\* purchase_date, else the earliest payment, else the earliest charge,
\* else Jan 1 of the anchor year
lt_start(p, year) ==
    IF resolved_purchase_date(p) # NoDate THEN resolved_purchase_date(p)
    ELSE LET cs == {c \in charges : c.lease_id \in lease_ids(p)}
         IN  IF cs = {} THEN MkDate(year, 1, 1)
             ELSE (CHOOSE c \in cs : \A o \in cs : c.charge_date <= o.charge_date).charge_date

lifetime_locals(p, year) ==
    LET s == lt_start(p, year)
        e == today
        lt_months == Max(1, months_in_period(s, e))
        lt_collected == rent_collected(p, s, e)
        lt_opex_m == maintenance_opex(p, s, e)
        lt_opex == lt_opex_m + monthly_fixed_costs(p) * lt_months
        lt_debt == monthly_debt_service(p) * lt_months
        lt_noi == lt_collected - lt_opex
    IN  [charged |-> rent_roll(p, s, e),
         collected |-> lt_collected,
         opex_maint |-> lt_opex_m,
         opex |-> lt_opex,
         capex |-> maintenance_capex(p, s, e),
         noi |-> lt_noi,
         debt |-> lt_debt,
         cash_flow |-> lt_noi - lt_debt,
         months |-> lt_months]

lifetime_data(p, year) ==
    LET lt == lifetime_locals(p, year)
    IN  [start_date |-> lt_start(p, year),
         months |-> lt.months,
         rent_charged |-> Round2(lt.charged),
         rent_collected |-> Round2(lt.collected),
         delinquency |-> Round2(lt.charged - lt.collected),
         opex |-> Round2(lt.opex),
         capex |-> Round2(lt.capex),
         noi |-> Round2(lt.noi),
         debt_service |-> Round2(lt.debt),
         cash_flow |-> Round2(lt.cash_flow),
         avg_monthly_noi |-> RoundHalfEven(lt.noi, 12 * lt.months),
         avg_monthly_cash_flow |-> RoundHalfEven(lt.cash_flow, 12 * lt.months),
         cap_rate |-> cap_rate(p, year),
         irr |-> irr_value(p, year),
         current_equity |-> Round2(current_equity(p)),
         total_equity_invested |-> Round2(total_equity_invested(p)),
         expense_breakdown |-> expense_bd(p, lt.months, lt.opex_maint, lt.charged)]

\* every (start, end) _property_metrics hands to rent_roll, rent_collected,
\* maintenance_opex and maintenance_capex, with the month count it uses
\* with that range
aggregator_ranges(p, year, month, include_lifetime) ==
    LET call(what, r, months) ==
            [what |-> what, start |-> r[1], end |-> r[2], months |-> months]
        yr_call(yr) ==
            LET b == _bound_by_purchase(_year_range(yr)[1], _year_range(yr)[2],
                                        prop_of(p).purchase_date)
                yr_end_cap == IF yr < year THEN b[2] ELSE today
            IN  call("irr_year", <<b[1], yr_end_cap>>,
                     ((MonthOf(yr_end_cap) - MonthOf(b[1])) + 1)
                         + (YearOf(yr_end_cap) - YearOf(b[1])) * 12)
        irr_runs == capital_events(p) # <<>>
                        \/ (total_equity_invested(p) # 0 /\ resolved_purchase_date(p) # NoDate)
    IN  {call("month", m_range(p, year, month), monthly_locals(p, year, month).months),
         call("quarter", q_range(p, year, month), quarterly_locals(p, year, month).months),
         call("ytd", ytd_range(p, year, month), ytd_locals(p, year, month).months),
         call("year", y_range(p, year), annual_locals(p, year).months),
         call("prior_year", py_range(p, year),
              bounded_months(py_range(p, year)[1], py_range(p, year)[2]))}
        \cup (IF irr_runs /\ cf_head(p) # <<>>
              THEN {yr_call(yr) : yr \in YearOf(cf_head(p)[1][1])..year}
              ELSE {})
        \cup (IF include_lifetime
              THEN {call("lifetime", <<lt_start(p, year), today>>,
                         lifetime_locals(p, year).months)}
              ELSE {})

\* round(occupied / len(rentable_units) * 100, 1), in tenths of a percent
occ_pct(p, year, month) ==
    IF rentable_units(p) # {}
    THEN RoundHalfEven(occupied_month(p, m_range(p, year, month)[2]) * 1000,
                       Cardinality(rentable_units(p)))
    ELSE 0

monthly_block(p, year, month) ==
    LET m == monthly_locals(p, year, month)
    IN  [rent_charged |-> Round2(m.charged),
         rent_collected |-> Round2(m.collected),
         delinquency |-> Round2(m.charged - m.collected),
         opex |-> Round2(m.opex),
         capex |-> Round2(m.capex),
         noi |-> Round2(m.noi),
         debt_service |-> Round2(m.debt),
         cash_flow |-> Round2(m.cash_flow),
         occupancy_pct |-> occ_pct(p, year, month),
         rentable_units |-> Cardinality(rentable_units(p)),
         occupied_units |-> occupied_month(p, m_range(p, year, month)[2]),
         expense_breakdown |-> expense_bd(p, 1, m.opex_maint, m.charged)]

ytd_block(p, year, month) ==
    LET y == ytd_locals(p, year, month)
    IN  [months |-> y.months,
         rent_charged |-> Round2(y.charged),
         rent_collected |-> Round2(y.collected),
         delinquency |-> Round2(y.charged - y.collected),
         opex |-> Round2(y.opex),
         capex |-> Round2(y.capex),
         noi |-> Round2(y.noi),
         debt_service |-> Round2(y.debt),
         cash_flow |-> Round2(y.cash_flow),
         occupancy_pct |-> occ_pct(p, year, month),
         rentable_units |-> Cardinality(rentable_units(p)),
         occupied_units |-> occupied_month(p, m_range(p, year, month)[2]),
         expense_breakdown |-> expense_bd(p, y.months, y.opex_maint, y.charged)]

quarterly_block(p, year, month) ==
    LET q == quarterly_locals(p, year, month)
    IN  [rent_charged |-> Round2(q.charged),
         rent_collected |-> Round2(q.collected),
         opex |-> Round2(q.opex),
         noi |-> Round2(q.noi),
         debt_service |-> Round2(q.debt),
         cash_flow |-> Round2(q.cash_flow),
         cash_on_cash_ytd |-> cash_on_cash_ytd(p, year, month),
         expense_by_category |-> expense_by_category(p, year, month),
         turnover_count |-> Cardinality(ended_leases(p, year, month)),
         avg_vacancy_days |-> avg_vacancy_days(p, year, month)]

annual_block(p, year) ==
    LET y == annual_locals(p, year)
    IN  [rent_charged |-> Round2(y.charged),
         rent_collected |-> Round2(y.collected),
         opex |-> Round2(y.opex),
         capex |-> Round2(y.capex),
         noi |-> Round2(y.noi),
         debt_service |-> Round2(y.debt),
         cash_flow |-> Round2(y.cash_flow),
         cap_rate |-> cap_rate(p, year),
         irr |-> irr_value(p, year),
         noi_prior_year |-> Round2(py_noi(p, year)),
         noi_yoy_pct |-> noi_yoy_pct(p, year),
         property_tax_annual |-> Round2(tax_total(p)),
         insurance_annual |-> Round2(insurance_total(p)),
         total_equity_invested |-> Round2(total_equity_invested(p)),
         current_equity |-> Round2(current_equity(p)),
         expense_breakdown |-> expense_bd(p, y.months, y.opex_maint, y.charged)]

\* [status |-> 200, body |-> <<report>>], or the HTTPException raised
_property_metrics(p, year, month, include_lifetime) ==
    IF PropertyRows(p) = {} THEN [status |-> 404, body |-> <<>>]
    ELSE [status |-> 200,
          body |-> <<[property_id |-> p,
                      property_address |-> prop_of(p).address,
                      year |-> year,
                      month |-> month,
                      quarter |-> (month - 1) \div 3 + 1,
                      monthly |-> monthly_block(p, year, month),
                      ytd |-> ytd_block(p, year, month),
                      quarterly |-> quarterly_block(p, year, month),
                      annual |-> annual_block(p, year),
                      lifetime |-> IF include_lifetime THEN <<lifetime_data(p, year)>>
                                   ELSE <<>>]>>]

----------------------------------------------------------------------------
(* GET /reports/property/{property_id}                                     *)

\* the household of the authenticated user
user_household == "H1"

\* year and month default to today's; month is int(month[5:7]) of "YYYY-MM"
resolve_year(year_arg) == IF year_arg = None THEN YearOf(today) ELSE year_arg[1]

resolve_month(month_arg) == IF month_arg = None THEN MonthOf(today) ELSE month_arg[1]

property_report(property_id, year_arg, month_arg, period) ==
    IF ~\E r \in properties_tbl : r.id = property_id /\ r.household_id = user_household
    THEN [status |-> 404, body |-> <<>>]
    ELSE _property_metrics(property_id, resolve_year(year_arg), resolve_month(month_arg),
                           period = "ltd")

----------------------------------------------------------------------------
(* The rows the initial stores are drawn from: one property P1 of the      *)
(* user's household, its units U1 (rentable) and U2 (not rentable).        *)

PropertyPool ==
    {[id |-> "P1", household_id |-> "H1", address |-> "1 Main St",
      purchase_date |-> None, purchase_price |-> 0, closing_costs |-> 0,
      current_value |-> Cents(15000000),
      is_property_managed |-> FALSE, management_fee_pct |-> 0],
     [id |-> "P1", household_id |-> "H1", address |-> "1 Main St",
      purchase_date |-> <<20250615, 14>>, purchase_price |-> Cents(12000000),
      closing_costs |-> Cents(300000), current_value |-> Cents(15000000),
      is_property_managed |-> TRUE, management_fee_pct |-> 800],
     [id |-> "P1", household_id |-> "H1", address |-> "1 Main St",
      purchase_date |-> <<20240310, 0>>, purchase_price |-> Cents(10000000),
      closing_costs |-> 0, current_value |-> 0,
      is_property_managed |-> FALSE, management_fee_pct |-> 0]}

UnitPool ==
    {[id |-> "U1", property_id |-> "P1", is_rentable |-> TRUE],
     [id |-> "U2", property_id |-> "P1", is_rentable |-> FALSE]}

UnitSets == {UnitPool, {u \in UnitPool : ~u.is_rentable}}

LeasePool ==
    {[id |-> "L1", unit_id |-> "U1", lease_start |-> 20250101, lease_end |-> NoDate,
      monthly_rent |-> Cents(200000), status |-> "active", move_out_date |-> NoDate],
     [id |-> "L2", unit_id |-> "U1", lease_start |-> 20240601, lease_end |-> 20250310,
      monthly_rent |-> Cents(150000), status |-> "active", move_out_date |-> NoDate]}

ChargePool ==
    {[id |-> "C1", lease_id |-> "L1", charge_date |-> 20250305, amount |-> Cents(180000)]}

PaymentPool ==
    {[id |-> "Y1", lease_id |-> "L1", payment_date |-> 20250331, amount |-> Cents(180000)],
     [id |-> "Y2", lease_id |-> "L1", payment_date |-> 20250531, amount |-> Cents(50001)]}

CostPool ==
    {[id |-> "K1", property_id |-> "P1", category |-> "property_tax",
      amount |-> Cents(100000), frequency |-> "annual", is_active |-> TRUE],
     [id |-> "K2", property_id |-> "P1", category |-> "other",
      amount |-> Cents(500000), frequency |-> "one_time", is_active |-> TRUE],
     [id |-> "K3", property_id |-> "P1", category |-> "insurance",
      amount |-> Cents(10000), frequency |-> "quarterly", is_active |-> TRUE]}

MaintPool ==
    {[id |-> "M1", property_id |-> "P1", expense_date |-> 20250320,
      amount |-> Cents(12000), category |-> "plumbing", is_capex |-> FALSE]}

LoanPool ==
    {[id |-> "N1", property_id |-> "P1", monthly_payment |-> Cents(60000),
      original_amount |-> Cents(9000000), current_balance |-> Cents(8500000)]}

\* Rows every store holds: a lease of the unit that is not rentable with a
\* payment on it, a capital improvement, and a cost that is not active.
FixedLeases ==
    {[id |-> "L3", unit_id |-> "U2", lease_start |-> 20250101, lease_end |-> NoDate,
      monthly_rent |-> Cents(90000), status |-> "active", move_out_date |-> NoDate]}

FixedPayments ==
    {[id |-> "Y3", lease_id |-> "L3", payment_date |-> 20250315, amount |-> Cents(90000)]}

FixedMaint ==
    {[id |-> "M2", property_id |-> "P1", expense_date |-> 20250710,
      amount |-> Cents(300000), category |-> "roof", is_capex |-> TRUE]}

FixedCosts ==
    {[id |-> "K4", property_id |-> "P1", category |-> "hoa",
      amount |-> Cents(5000), frequency |-> "monthly", is_active |-> FALSE]}

TodayPool == {20250820}

AnchorYears == {2025}

AnchorMonths == {3, 5}

\* the subsets of Pool with at most MaxRecords rows
Rows(Pool) == {S \in SUBSET Pool : Cardinality(S) <= MaxRecords}

NoResponse == [status |-> 0, body |-> <<>>]

NoRequest == [op |-> "none", property_id |-> "", year |-> 0, month |-> 0, period |-> ""]

\* no call of _irr made yet
IrrIdle == [kind |-> "none", exit |-> "not_run", bp |-> 0, looped |-> FALSE]

IdleAux ==
    /\ irr_in = <<>>
    /\ irr_out = IrrIdle
    /\ pf_pc = "idle"
    /\ pf_props = <<>>
    /\ pf_i = 1
    /\ pf_reports = <<>>
    /\ pf_skipped = <<>>

----------------------------------------------------------------------------
(* Spec: the reports of one property over every store drawn from the pools. *)

Init ==
    /\ properties_tbl \in {{v} : v \in PropertyPool}
    /\ units \in UnitSets
    /\ leases \in {S \cup FixedLeases : S \in
                       {S \in Rows(LeasePool) : \A l \in S : l.unit_id \in {u.id : u \in units}}}
    /\ charges \in {S \in Rows(ChargePool) : \A c \in S : c.lease_id \in {l.id : l \in leases}}
    /\ payments \in {S \cup FixedPayments : S \in
                         {S \in Rows(PaymentPool) : \A x \in S : x.lease_id \in {l.id : l \in leases}}}
    /\ costs \in {S \cup FixedCosts : S \in Rows(CostPool)}
    /\ maint \in {S \cup FixedMaint : S \in Rows(MaintPool)}
    /\ loans \in Rows(LoanPool)
    /\ events = {}
    /\ today \in TodayPool
    /\ request = NoRequest
    /\ response = NoResponse
    /\ IdleAux

PropertyReport(property_id, year_arg, month_arg, period) ==
    /\ request = NoRequest
    /\ request' = [op |-> "property_report", property_id |-> property_id,
                   year |-> resolve_year(year_arg), month |-> resolve_month(month_arg),
                   period |-> period]
    /\ response' = property_report(property_id, year_arg, month_arg, period)
    /\ UNCHANGED <<store, today, irr_vars, pf_vars>>

\* the caller takes the response; the next request can be made
Deliver ==
    /\ request # NoRequest
    /\ request' = NoRequest
    /\ response' = NoResponse
    /\ UNCHANGED <<store, today, irr_vars, pf_vars>>

Next ==
    \/ \E period \in {"default", "ltd"} :
           \/ \E y \in AnchorYears, m \in AnchorMonths :
                  PropertyReport("P1", <<y>>, <<m>>, period)
           \/ PropertyReport("P1", None, None, period)
    \/ Deliver

Spec == Init /\ [][Next]_vars

----------------------------------------------------------------------------
(* SpecPeriods: the five date ranges _property_metrics resolves for an     *)
(* anchor month, over properties that differ in purchase_date only.        *)

PurchaseDates ==
    {None, <<20240310, 0>>, <<20250101, 0>>, <<20250615, 14>>, <<20251231, 23>>,
     <<20260201, 9>>}

PeriodYears == {2024, 2025, 2026}

InitPeriods ==
    /\ properties_tbl \in
           {{[id |-> "P1", household_id |-> "H1", address |-> "1 Main St",
              purchase_date |-> d, purchase_price |-> 0, closing_costs |-> 0,
              current_value |-> 0, is_property_managed |-> FALSE,
              management_fee_pct |-> 0]} : d \in PurchaseDates}
    /\ units = {}
    /\ leases = {}
    /\ charges = {}
    /\ payments = {}
    /\ costs = {}
    /\ maint = {}
    /\ loans = {}
    /\ events = {}
    /\ today \in TodayPool
    /\ request = NoRequest
    /\ response = NoResponse
    /\ IdleAux

\* the ranges as _property_metrics holds them once the property is loaded
ResolvePeriods(p, year, month) ==
    /\ PropertyRows(p) # {}
    /\ request' = [op |-> "periods", property_id |-> p, year |-> year,
                   month |-> month, period |-> ""]
    /\ response' = [status |-> 200,
                    body |-> <<[month |-> m_range(p, year, month),
                                quarter |-> q_range(p, year, month),
                                year |-> y_range(p, year),
                                prior_year |-> py_range(p, year),
                                ytd |-> ytd_range(p, year, month)]>>]
    /\ UNCHANGED <<store, today, irr_vars, pf_vars>>

NextPeriods == \E y \in PeriodYears, m \in 1..12 : ResolvePeriods("P1", y, m)

SpecPeriods == InitPeriods /\ [][NextPeriods]_vars

----------------------------------------------------------------------------
(* SpecIrr: _irr applied to every list of at most MaxFlows dated cash      *)
(* flows over a few dates and amounts.                                     *)

FlowDates == {20240310, 20250615}

FlowAmounts == {0 - 100, 0, 50, 100}

RECURSIVE FlowLists(_)
FlowLists(n) ==
    IF n = 0 THEN {<<>>}
    ELSE LET shorter == FlowLists(n - 1)
         IN  shorter \cup {Append(l, <<d, a>>) :
                               l \in {x \in shorter : Len(x) = n - 1},
                               d \in FlowDates, a \in FlowAmounts}

InitIrr ==
    /\ properties_tbl = {}
    /\ units = {}
    /\ leases = {}
    /\ charges = {}
    /\ payments = {}
    /\ costs = {}
    /\ maint = {}
    /\ loans = {}
    /\ events = {}
    /\ today \in TodayPool
    /\ request = NoRequest
    /\ response = NoResponse
    /\ IdleAux

CallIrr(cash_flows) ==
    /\ irr_out = IrrIdle
    /\ irr_in' = cash_flows
    /\ irr_out' = _irr(cash_flows)
    /\ UNCHANGED <<store, today, request, response, pf_vars>>

\* the caller takes the result; _irr keeps nothing between calls
IrrReturn ==
    /\ irr_out # IrrIdle
    /\ irr_in' = <<>>
    /\ irr_out' = IrrIdle
    /\ UNCHANGED <<store, today, request, response, pf_vars>>

NextIrr ==
    \/ \E cash_flows \in FlowLists(MaxFlows) : CallIrr(cash_flows)
    \/ IrrReturn

SpecIrr == InitIrr /\ [][NextIrr]_vars

----------------------------------------------------------------------------
(* portfolio_report: the report of every property of the household and the *)
(* totals over them.                                                       *)

household_properties == {r \in properties_tbl : r.household_id = user_household}

\* the reports are fields in cents (or counts), so the float sum rounded to
\* two decimals is their integer sum
RECURSIVE agg_last_report_only(_, _, _)
agg_last_report_only(reports, blk, key) ==
    IF reports = <<>> THEN 0
    ELSE reports[Len(reports)][blk][key]

RECURSIVE agg(_, _, _)
agg(reports, blk, key) ==
    IF reports = <<>> THEN 0
    ELSE reports[1][blk][key] + agg(Tail(reports), blk, key)

RECURSIVE agg_cat(_, _, _)
agg_cat(reports, blk, c) ==
    IF reports = <<>> THEN 0
    ELSE reports[1][blk].expense_breakdown[c] + agg_cat(Tail(reports), blk, c)

agg_bd(reports, blk) ==
    [c \in {"loan_payment", "property_tax", "insurance", "hoa", "other_fixed",
            "repairs", "management_fee"} |-> agg_cat(reports, blk, c)]

portfolio_total(reports, month_num) ==
    [monthly |->
        [rent_charged |-> agg(reports, "monthly", "rent_charged"),
         rent_collected |-> agg(reports, "monthly", "rent_collected"),
         delinquency |-> agg(reports, "monthly", "delinquency"),
         opex |-> agg(reports, "monthly", "opex"),
         capex |-> agg(reports, "monthly", "capex"),
         noi |-> agg(reports, "monthly", "noi"),
         debt_service |-> agg(reports, "monthly", "debt_service"),
         cash_flow |-> agg(reports, "monthly", "cash_flow"),
         rentable_units |-> agg(reports, "monthly", "rentable_units"),
         occupied_units |-> agg(reports, "monthly", "occupied_units"),
         expense_breakdown |-> agg_bd(reports, "monthly")],
     ytd |->
        [months |-> month_num,
         rent_charged |-> agg(reports, "ytd", "rent_charged"),
         rent_collected |-> agg(reports, "ytd", "rent_collected"),
         delinquency |-> agg(reports, "ytd", "delinquency"),
         opex |-> agg(reports, "ytd", "opex"),
         capex |-> agg(reports, "ytd", "capex"),
         noi |-> agg(reports, "ytd", "noi"),
         debt_service |-> agg(reports, "ytd", "debt_service"),
         cash_flow |-> agg(reports, "ytd", "cash_flow"),
         rentable_units |-> agg(reports, "monthly", "rentable_units"),
         occupied_units |-> agg(reports, "monthly", "occupied_units"),
         expense_breakdown |-> agg_bd(reports, "ytd")],
     annual |->
        [rent_charged |-> agg(reports, "annual", "rent_charged"),
         rent_collected |-> agg(reports, "annual", "rent_collected"),
         opex |-> agg(reports, "annual", "opex"),
         noi |-> agg(reports, "annual", "noi"),
         debt_service |-> agg(reports, "annual", "debt_service"),
         cash_flow |-> agg(reports, "annual", "cash_flow"),
         total_equity_invested |-> agg(reports, "annual", "total_equity_invested"),
         current_equity |-> agg(reports, "annual", "current_equity")]]

\* one round of `for prop in properties`: the report is appended, or the
\* exception of _property_metrics is caught and the property logged
loop_body_uncaught(reports, skipped, p, r) ==
    IF r.status = 200
    THEN [reports |-> Append(reports, r.body[1]), skipped |-> skipped, raised |-> 0]
    ELSE [reports |-> reports, skipped |-> skipped, raised |-> r.status]

\* r is what _property_metrics gave for property p
loop_body(reports, skipped, p, r) ==
    IF r.status = 200
    THEN [reports |-> Append(reports, r.body[1]), skipped |-> skipped, raised |-> 0]
    ELSE [reports |-> reports, skipped |-> Append(skipped, p), raised |-> 0]

portfolio_response(year, month_num, reports) ==
    [status |-> 200,
     body |-> <<[year |-> year,
                 month |-> <<year, month_num>>,
                 properties |-> reports,
                 portfolio_total |-> portfolio_total(reports, month_num)]>>]

----------------------------------------------------------------------------
(* SpecPortfolio: portfolio_report, one round of its loop at a time, while *)
(* another request of the household may delete a property.                 *)

PortfolioProps ==
    {[id |-> "P1", household_id |-> "H1", address |-> "1 Main St",
      purchase_date |-> <<20240310, 0>>, purchase_price |-> Cents(10000000),
      closing_costs |-> 0, current_value |-> 0,
      is_property_managed |-> FALSE, management_fee_pct |-> 0],
     [id |-> "P2", household_id |-> "H1", address |-> "2 Oak Ave",
      purchase_date |-> None, purchase_price |-> 0, closing_costs |-> 0,
      current_value |-> Cents(15000000),
      is_property_managed |-> FALSE, management_fee_pct |-> 0],
     [id |-> "P3", household_id |-> "H1", address |-> "3 Elm Rd",
      purchase_date |-> <<20250615, 14>>, purchase_price |-> Cents(12000000),
      closing_costs |-> Cents(300000), current_value |-> Cents(15000000),
      is_property_managed |-> TRUE, management_fee_pct |-> 800]}

OtherHouseholdProps ==
    {[id |-> "P9", household_id |-> "H2", address |-> "9 Far Ln",
      purchase_date |-> None, purchase_price |-> 0, closing_costs |-> 0,
      current_value |-> Cents(9000000),
      is_property_managed |-> FALSE, management_fee_pct |-> 0]}

PortfolioCosts ==
    {[id |-> "K5", property_id |-> "P2", category |-> "insurance",
      amount |-> Cents(120000), frequency |-> "annual", is_active |-> TRUE],
     [id |-> "K6", property_id |-> "P3", category |-> "hoa",
      amount |-> Cents(5000), frequency |-> "monthly", is_active |-> TRUE],
     [id |-> "K9", property_id |-> "P9", category |-> "hoa",
      amount |-> Cents(7000), frequency |-> "monthly", is_active |-> TRUE]}

PortfolioMaint ==
    {[id |-> "M3", property_id |-> "P3", expense_date |-> 20250312,
      amount |-> Cents(8000), category |-> "paint", is_capex |-> FALSE]}

PortfolioLoans ==
    {[id |-> "N2", property_id |-> "P2", monthly_payment |-> Cents(40000),
      original_amount |-> Cents(5000000), current_balance |-> Cents(4500000)]}

\* every ordering of a set of ids: the query of the properties has no ORDER BY
Orderings(S) ==
    {f \in [1..Cardinality(S) -> S] : \A i, j \in 1..Cardinality(S) : f[i] = f[j] => i = j}

InitPortfolio ==
    /\ properties_tbl \in {S \cup OtherHouseholdProps : S \in
                               {S \in SUBSET PortfolioProps : Cardinality(S) <= MaxProps}}
    /\ units = {u \in UnitPool : u.property_id \in {r.id : r \in properties_tbl}}
    /\ leases = {l \in LeasePool \cup FixedLeases : l.unit_id \in {u.id : u \in units}}
    /\ charges = {c \in ChargePool : c.lease_id \in {l.id : l \in leases}}
    /\ payments \in {{x \in S \cup FixedPayments : x.lease_id \in {l.id : l \in leases}} :
                         S \in Rows(PaymentPool)}
    /\ costs = {c \in CostPool \cup FixedCosts \cup PortfolioCosts :
                    c.property_id \in {r.id : r \in properties_tbl}}
    /\ maint \in {{x \in S \cup FixedMaint \cup PortfolioMaint :
                       x.property_id \in {r.id : r \in properties_tbl}} :
                      S \in Rows(MaintPool)}
    /\ loans = {l \in LoanPool \cup PortfolioLoans :
                    l.property_id \in {r.id : r \in properties_tbl}}
    /\ events = {}
    /\ today \in TodayPool
    /\ request = NoRequest
    /\ response = NoResponse
    /\ IdleAux

\* the arguments are resolved and the properties of the household listed
PortfolioBegin(year_arg, month_arg, order) ==
    /\ pf_pc = "idle"
    /\ request' = [op |-> "portfolio_report", property_id |-> "",
                   year |-> resolve_year(year_arg), month |-> resolve_month(month_arg),
                   period |-> ""]
    /\ pf_props' = order
    /\ pf_i' = 1
    /\ pf_reports' = <<>>
    /\ pf_skipped' = <<>>
    /\ pf_pc' = "loop"
    /\ UNCHANGED <<store, today, response, irr_vars>>

\* one round of the loop; an exception that escapes it ends the request
PortfolioStep ==
    /\ pf_pc = "loop"
    /\ pf_i <= Len(pf_props)
    /\ \E out \in {loop_body(pf_reports, pf_skipped, pf_props[pf_i],
                                _property_metrics(pf_props[pf_i], request.year,
                                                  request.month, FALSE))} :
           IF out.raised # 0
           THEN /\ response' = [status |-> out.raised, body |-> <<>>]
                /\ pf_pc' = "done"
                /\ UNCHANGED <<pf_i, pf_reports, pf_skipped>>
           ELSE /\ pf_reports' = out.reports
                /\ pf_skipped' = out.skipped
                /\ pf_i' = pf_i + 1
                /\ UNCHANGED <<response, pf_pc>>
    /\ UNCHANGED <<store, today, request, pf_props, irr_vars>>

PortfolioEnd ==
    /\ pf_pc = "loop"
    /\ pf_i > Len(pf_props)
    /\ response' = portfolio_response(request.year, request.month, pf_reports)
    /\ pf_pc' = "done"
    /\ UNCHANGED <<store, today, request, pf_props, pf_i, pf_reports, pf_skipped, irr_vars>>

\* delete_property of another request: the row goes, and with it the rows
\* that cascade; a property that still has units cannot be deleted
DeleteProperty(p) ==
    /\ \E r \in household_properties : r.id = p
    /\ \A u \in units : u.property_id # p
    /\ properties_tbl' = {r \in properties_tbl : r.id # p}
    /\ costs' = {c \in costs : c.property_id # p}
    /\ maint' = {x \in maint : x.property_id # p}
    /\ loans' = {l \in loans : l.property_id # p}
    /\ events' = {e \in events : e.property_id # p}
    /\ UNCHANGED <<units, leases, charges, payments, today, request, response,
                   irr_vars, pf_vars>>

NextPortfolio ==
    \/ \E year_arg \in {None, <<2025>>}, month_arg \in {None, <<3>>} :
           \E order \in Orderings({r.id : r \in household_properties}) :
               PortfolioBegin(year_arg, month_arg, order)
    \/ PortfolioStep
    \/ PortfolioEnd
    \/ \E p \in {r.id : r \in PortfolioProps} : DeleteProperty(p)

SpecPortfolio == InitPortfolio /\ [][NextPortfolio]_vars

----------------------------------------------------------------------------
(* tax_export: the CSV of the tax year, one row per property of the        *)
(* household and a total row.  A cell is a record: a text, an amount       *)
(* written with two decimals (held in cents), or the empty string.         *)

TextCell(t) == [kind |-> "text", text |-> t, cents |-> 0]

\* f"{x:.2f}" of an amount in units
AmountCell(x) == [kind |-> "amount", text |-> "", cents |-> Round2(x)]

tax_header ==
    <<"Property Address", "Gross Rents Received", "Management Fees", "Insurance",
      "Property Taxes", "HOA Fees", "Repairs & Maintenance", "Other Fixed Costs",
      "Total Operating Expenses", "Net Operating Income",
      "Capital Expenditures (Separate - For Depreciation)",
      "Loan Balance (End of Year)", "Notes">>

\* the leases of every unit of the property, rentable or not
tax_lease_ids(p) ==
    LET uids == {u.id : u \in {x \in units : x.property_id = p}}
    IN  IF uids = {} THEN {}
        ELSE {l.id : l \in {x \in leases : x.unit_id \in uids}}

tax_gross_rents(p, year) ==
    LET lids == tax_lease_ids(p)
    IN  IF lids = {} THEN 0
        ELSE SumField({x \in payments : /\ x.lease_id \in lids
                                        /\ x.payment_date >= MkDate(year, 1, 1)
                                        /\ x.payment_date <= MkDate(year, 12, 31)}, "amount")

tax_rent_charged(p, year) ==
    LET lids == tax_lease_ids(p)
    IN  IF lids = {} THEN 0
        ELSE SumField({c \in charges : /\ c.lease_id \in lids
                                       /\ c.charge_date >= MkDate(year, 1, 1)
                                       /\ c.charge_date <= MkDate(year, 12, 31)}, "amount")

annual_amount(cost) ==
    IF cost.frequency = "monthly" THEN cost.amount * 12
    ELSE IF cost.frequency = "quarterly" THEN cost.amount * 4
    ELSE IF cost.frequency = "annual" THEN cost.amount
    ELSE cost.amount

RECURSIVE SumAnnual(_)
SumAnnual(cs) ==
    IF cs = {} THEN 0
    ELSE LET c == CHOOSE x \in cs : TRUE
         IN  annual_amount(c) + SumAnnual(cs \ {c})

tax_maintenance(p, year, capex) ==
    SumField({x \in maint : /\ x.property_id = p
                            /\ x.expense_date >= MkDate(year, 1, 1)
                            /\ x.expense_date <= MkDate(year, 12, 31)
                            /\ x.is_capex = capex}, "amount")

\* rent_charged * float(management_fee_pct) / 100; the pct is held in
\* hundredths of a percent
tax_mgmt_fees(prop, charged) ==
    IF prop.is_property_managed /\ prop.management_fee_pct # 0
    THEN MulDivRound(charged, prop.management_fee_pct, 10000)
    ELSE 0

\* the figures of one property, before they are written
tax_figures(p, year) ==
    LET cs == active_costs(p)
        gross_rents == tax_gross_rents(p, year)
        mgmt_fees == tax_mgmt_fees(prop_of(p), tax_rent_charged(p, year))
        insurance_annual == SumAnnual({c \in cs : c.category = "insurance"})
        property_tax_annual == SumAnnual({c \in cs : c.category = "property_tax"})
        hoa_annual == SumAnnual({c \in cs : c.category = "hoa"})
        other_fixed_annual ==
            SumAnnual({c \in cs : c.category \notin {"insurance", "property_tax", "hoa"}})
        repairs_annual == tax_maintenance(p, year, FALSE)
        total_opex == mgmt_fees + insurance_annual + property_tax_annual + hoa_annual
                          + repairs_annual + other_fixed_annual
    IN  [address |-> prop_of(p).address,
         gross_rents |-> gross_rents,
         mgmt_fees |-> mgmt_fees,
         insurance |-> insurance_annual,
         property_tax |-> property_tax_annual,
         hoa |-> hoa_annual,
         repairs |-> repairs_annual,
         other_fixed |-> other_fixed_annual,
         total_opex |-> total_opex,
         noi |-> gross_rents - total_opex,
         capex |-> tax_maintenance(p, year, TRUE),
         loan_balance |-> total_current_balance(p)]

tax_property_row(f) ==
    <<TextCell(f.address), AmountCell(f.gross_rents), AmountCell(f.mgmt_fees),
      AmountCell(f.insurance), AmountCell(f.property_tax), AmountCell(f.hoa),
      AmountCell(f.repairs), AmountCell(f.other_fixed), AmountCell(f.total_opex),
      AmountCell(f.noi), AmountCell(f.capex), AmountCell(f.loan_balance),
      TextCell("See loan statements for mortgage interest breakdown")>>

\* portfolio_totals after the loop over the properties in the given order
RECURSIVE tax_portfolio_totals(_, _)
tax_portfolio_totals(order, year) ==
    LET keys == {"gross_rents", "mgmt_fees", "insurance", "property_tax", "hoa",
                 "repairs", "other_fixed", "total_opex", "noi", "capex"}
    IN  IF order = <<>> THEN [k \in keys |-> 0]
        ELSE LET before == tax_portfolio_totals(SubSeq(order, 1, Len(order) - 1), year)
                 f == tax_figures(order[Len(order)], year)
             IN  [k \in keys |-> before[k] + f[k]]

tax_total_row(t) ==
    <<TextCell("PORTFOLIO TOTAL"), AmountCell(t.gross_rents), AmountCell(t.mgmt_fees),
      AmountCell(t.insurance), AmountCell(t.property_tax), AmountCell(t.hoa),
      AmountCell(t.repairs), AmountCell(t.other_fixed), AmountCell(t.total_opex),
      AmountCell(t.noi), AmountCell(t.capex), TextCell(""), TextCell("")>>

\* order: the properties of the household as the query returned them
tax_export(year, order) ==
    IF order = <<>> THEN [status |-> 404, body |-> <<>>]
    ELSE [status |-> 200,
          body |-> <<[header |-> tax_header,
                      rows |-> [i \in 1..Len(order) |->
                                    tax_property_row(tax_figures(order[i], year))],
                      total |-> tax_total_row(tax_portfolio_totals(order, year)),
                      filename |-> <<"rental_tax_report", year>>]>>]

----------------------------------------------------------------------------
(* SpecTax: the three handlers of the router side by side, on households   *)
(* of zero to MaxProps properties, while another request may delete a      *)
(* property.  P1 is managed and has units, leases, charges and payments.   *)

TaxProps ==
    {r \in PropertyPool : r.is_property_managed} \cup {r \in PortfolioProps : r.id # "P1"}

InitTax ==
    /\ properties_tbl \in {S \cup OtherHouseholdProps : S \in
                               {S \in SUBSET TaxProps : Cardinality(S) <= MaxProps}}
    /\ units = {u \in UnitPool : u.property_id \in {r.id : r \in properties_tbl}}
    /\ leases = {l \in LeasePool \cup FixedLeases : l.unit_id \in {u.id : u \in units}}
    /\ charges = {c \in ChargePool : c.lease_id \in {l.id : l \in leases}}
    /\ payments \in {{x \in S \cup FixedPayments : x.lease_id \in {l.id : l \in leases}} :
                         S \in Rows(PaymentPool)}
    /\ costs \in {{c \in S \cup FixedCosts \cup PortfolioCosts :
                       c.property_id \in {r.id : r \in properties_tbl}} :
                      S \in Rows(CostPool)}
    /\ maint = {x \in MaintPool \cup FixedMaint \cup PortfolioMaint :
                    x.property_id \in {r.id : r \in properties_tbl}}
    /\ loans = {l \in LoanPool \cup PortfolioLoans :
                    l.property_id \in {r.id : r \in properties_tbl}}
    /\ events = {}
    /\ today \in TodayPool
    /\ request = NoRequest
    /\ response = NoResponse
    /\ IdleAux

\* a tax_export that also purges the costs that are not active
TaxExport_purges_inactive_costs(year, order) ==
    /\ request = NoRequest
    /\ request' = [op |-> "tax_export", property_id |-> "", year |-> year, month |-> 0,
                   period |-> ""]
    /\ response' = tax_export(year, order)
    /\ costs' = {c \in costs : c.is_active}
    /\ UNCHANGED <<properties_tbl, units, leases, charges, payments, maint, loans, events,
                   today, irr_vars, pf_vars>>

TaxExport(year, order) ==
    /\ request = NoRequest
    /\ request' = [op |-> "tax_export", property_id |-> "", year |-> year, month |-> 0,
                   period |-> ""]
    /\ response' = tax_export(year, order)
    /\ UNCHANGED <<store, today, irr_vars, pf_vars>>

\* the caller of portfolio_report takes the response
PortfolioDeliver ==
    /\ pf_pc = "done"
    /\ request' = NoRequest
    /\ response' = NoResponse
    /\ pf_pc' = "idle"
    /\ pf_props' = <<>>
    /\ pf_i' = 1
    /\ pf_reports' = <<>>
    /\ pf_skipped' = <<>>
    /\ UNCHANGED <<store, today, irr_vars>>

\* the same request is made again: same arguments, same stored rows
Repeat ==
    /\ request.op = "property_report"
    /\ response' = property_report(request.property_id, <<request.year>>,
                                   <<request.month>>, request.period)
    /\ UNCHANGED <<store, today, request, irr_vars, pf_vars>>

\* the clock of the server passes into the next month
Tick ==
    /\ today \in TodayPool
    /\ MonthOf(today) < 12
    /\ today' = MkDate(YearOf(today), MonthOf(today) + 1, 1)
    /\ UNCHANGED <<store, request, response, irr_vars, pf_vars>>

NextTax ==
    \/ \E year \in {2024, 2025} :
           \E order \in Orderings({r.id : r \in household_properties}) :
               TaxExport(year, order)
    \/ \E property_id \in {"P1", "P9", "P0"}, period \in {"default", "ltd"} :
           \E year \in {2025, 2026} : PropertyReport(property_id, <<year>>, <<3>>, period)
    \/ Repeat
    \/ Tick
    \/ /\ request = NoRequest
       /\ \E order \in Orderings({r.id : r \in household_properties}) :
              PortfolioBegin(<<2025>>, <<3>>, order)
    \/ PortfolioStep
    \/ PortfolioEnd
    \/ PortfolioDeliver
    \/ pf_pc = "idle" /\ Deliver
    \/ \E p \in {r.id : r \in TaxProps} : DeleteProperty(p)

SpecTax == InitTax /\ [][NextTax]_vars

----------------------------------------------------------------------------
(* inbox_parser: a path is the sequence of its parts, a part the sequence  *)
(* of its characters.                                                      *)

MaxParts == 4

_YEAR_MIN == 1990

_YEAR_MAX == 2100

VALID_DOCUMENT_TYPES ==
    {<<"t", "a", "x">>,
     <<"i", "n", "v", "e", "s", "t", "m", "e", "n", "t">>,
     <<"r", "e", "t", "i", "r", "e", "m", "e", "n", "t">>,
     <<"i", "n", "s", "u", "r", "a", "n", "c", "e">>,
     <<"b", "a", "n", "k", "i", "n", "g">>,
     <<"i", "n", "c", "o", "m", "e">>,
     <<"e", "s", "t", "a", "t", "e">>,
     <<"o", "t", "h", "e", "r">>}

VALID_PROPERTY_CATEGORIES ==
    {<<"d", "e", "e", "d">>,
     <<"i", "n", "s", "u", "r", "a", "n", "c", "e">>,
     <<"i", "n", "s", "p", "e", "c", "t", "i", "o", "n">>,
     <<"p", "e", "r", "m", "i", "t", "s">>,
     <<"p", "h", "o", "t", "o", "s">>,
     <<"m", "a", "i", "n", "t", "e", "n", "a", "n", "c", "e">>,
     <<"l", "e", "g", "a", "l">>,
     <<"o", "t", "h", "e", "r">>}

\* str.lower(), on the capitals the paths of the model are written with
lower(part) ==
    LET small == [c \in {"F", "T", "A", "X", "P", "D"} |->
                      CASE c = "F" -> "f" [] c = "T" -> "t" [] c = "A" -> "a"
                        [] c = "X" -> "x" [] c = "P" -> "p" [] c = "D" -> "d"]
    IN  [i \in 1..Len(part) |-> IF part[i] \in DOMAIN small THEN small[part[i]] ELSE part[i]]

DigitValue ==
    [c \in {"0", "1", "2", "3", "4", "5", "6", "7", "8", "9"} |->
         CASE c = "0" -> 0 [] c = "1" -> 1 [] c = "2" -> 2 [] c = "3" -> 3 [] c = "4" -> 4
           [] c = "5" -> 5 [] c = "6" -> 6 [] c = "7" -> 7 [] c = "8" -> 8 [] c = "9" -> 9]

\* re.compile(r"^\d{4}$").match: four digits from the start, and then the
\* end of the string or a newline that ends the string
_YEAR_PATTERN(part) ==
    /\ Len(part) >= 4
    /\ \A i \in 1..4 : part[i] \in DOMAIN DigitValue
    /\ \/ Len(part) = 4
       \/ Len(part) = 5 /\ part[5] = "\n"

\* int() of a string the pattern matched: white space around the digits
\* is dropped
int(part) ==
    DigitValue[part[1]] * 1000 + DigitValue[part[2]] * 100
        + DigitValue[part[3]] * 10 + DigitValue[part[4]]

ParseError == [kind |-> "ParseError", document_type |-> <<>>, category |-> <<>>,
               reference_year |-> None, property_slug |-> <<>>]

FinancialImport(document_type, category, reference_year) ==
    [kind |-> "FinancialImport", document_type |-> document_type, category |-> category,
     reference_year |-> reference_year, property_slug |-> <<>>]

PropertyImport(property_slug, category) ==
    [kind |-> "PropertyImport", document_type |-> <<>>, category |-> category,
     reference_year |-> None, property_slug |-> property_slug]

_parse_financial(parts) ==
    IF Len(parts) < 3 THEN ParseError
    ELSE IF lower(parts[2]) \notin VALID_DOCUMENT_TYPES THEN ParseError
    ELSE IF Len(parts) = 3 THEN FinancialImport(lower(parts[2]), lower(parts[2]), None)
    ELSE IF _YEAR_PATTERN(parts[3])
         THEN IF ~(_YEAR_MIN <= int(parts[3]) /\ int(parts[3]) <= _YEAR_MAX)
              THEN ParseError
              ELSE FinancialImport(lower(parts[2]), lower(parts[2]), <<int(parts[3])>>)
         ELSE FinancialImport(lower(parts[2]), lower(parts[2]), None)

_parse_property(parts) ==
    IF Len(parts) < 3 THEN ParseError
    ELSE IF Len(parts) = 3 THEN PropertyImport(lower(parts[2]), <<"o", "t", "h", "e", "r">>)
    ELSE IF lower(parts[3]) \notin VALID_PROPERTY_CATEGORIES
         THEN PropertyImport(lower(parts[2]), <<"o", "t", "h", "e", "r">>)
         ELSE PropertyImport(lower(parts[2]), lower(parts[3]))

parse_inbox_path(parts) ==
    IF Len(parts) < 2 THEN ParseError
    ELSE IF lower(parts[1]) = <<"f", "i", "n", "a", "n", "c", "i", "a", "l">> THEN _parse_financial(parts)
    ELSE IF lower(parts[1]) = <<"p", "r", "o", "p", "e", "r", "t", "i", "e", "s">> THEN _parse_property(parts)
    ELSE ParseError

----------------------------------------------------------------------------
(* SpecInbox: parse_inbox_path applied to paths of at most MaxParts parts: *)
(* a root folder, a type folder, a folder or file name that may look like  *)
(* a year, and file names.                                                 *)

PathPool ==
    LET roots == {<<"f", "i", "n", "a", "n", "c", "i", "a", "l">>, <<"F", "i", "n", "a", "n", "c", "i", "a", "l">>,
                  <<"p", "r", "o", "p", "e", "r", "t", "i", "e", "s">>, <<"p", "h", "o", "t", "o", "s">>}
        types == {<<"t", "a", "x">>, <<"T", "A", "X">>, <<"o", "t", "h", "e", "r">>, <<"c", "r", "y", "p", "t", "o">>, <<"d", "e", "e", "d">>}
        digits == {"0", "1", "2", "9"}
        four == {<<a, b, c, d>> : a \in {"1", "2"}, b \in digits, c \in digits, d \in digits}
        third == four
                     \cup {y \o <<c>> : y \in four, c \in {"\n", "0", "x"}}
                     \cup {SubSeq(y, 1, 3) : y \in four}
                     \cup {SubSeq(y, 1, 3) \o <<"x">> : y \in four}
                     \cup {<<"c", "u", "r", "r", "e", "n", "t">>, <<"d", "e", "e", "d">>}
        file == <<"W", "2", ".", "p", "d", "f">>
        heads == {<<r>> : r \in roots} \cup {<<r, t>> : r \in roots, t \in types}
                     \cup {<<r, t, c>> : r \in roots, t \in types, c \in third}
    IN  {h \in heads : Len(h) <= MaxParts}
            \cup {h \o [i \in 1..n |-> file] : h \in heads, n \in 1..MaxParts}

InitInbox ==
    /\ properties_tbl = {}
    /\ units = {}
    /\ leases = {}
    /\ charges = {}
    /\ payments = {}
    /\ costs = {}
    /\ maint = {}
    /\ loans = {}
    /\ events = {}
    /\ today \in TodayPool
    /\ request \in {[op |-> "parse_inbox_path", parts |-> path] :
                        path \in {q \in PathPool : Len(q) <= MaxParts}}
    /\ response = NoResponse
    /\ IdleAux

ParseInboxPath ==
    /\ response = NoResponse
    /\ response' = [status |-> 0, body |-> <<parse_inbox_path(request.parts)>>]
    /\ UNCHANGED <<store, today, request, irr_vars, pf_vars>>

NextInbox == ParseInboxPath

SpecInbox == InitInbox /\ [][NextInbox]_vars

----------------------------------------------------------------------------
(* SpecSeries: property_report over stores that hold capital events, for   *)
(* a past, the current and a later anchor year.                            *)

EventPool ==
    {[id |-> "E1", property_id |-> "P1", event_date |-> 20240310,
      event_type |-> "acquisition", amount |-> 0 - Cents(1000000)],
     [id |-> "E2", property_id |-> "P1", event_date |-> 20230815,
      event_type |-> "additional_investment", amount |-> 0 - Cents(500000)],
     [id |-> "E3", property_id |-> "P1", event_date |-> 20250401,
      event_type |-> "refi_proceeds", amount |-> Cents(2000000)]}

\* a supplemental tax bill: a cost of category property_tax paid once
SpecialAssessment ==
    {[id |-> "K7", property_id |-> "P1", category |-> "property_tax",
      amount |-> Cents(250000), frequency |-> "one_time", is_active |-> TRUE]}

InitSeries ==
    /\ properties_tbl \in
           {{v} : v \in PropertyPool}
               \cup {{[v EXCEPT !.purchase_date = None]} : v \in PropertyPool}
               \cup {{[v EXCEPT !.purchase_price = 0, !.closing_costs = 0]} :
                         v \in PropertyPool}
    /\ units \in UnitSets
    /\ leases = {l \in LeasePool \cup FixedLeases : l.unit_id \in {u.id : u \in units}}
    /\ charges = {}
    /\ payments \in {{x \in S \cup FixedPayments : x.lease_id \in {l.id : l \in leases}} :
                         S \in Rows(PaymentPool)}
    /\ costs \in {{c \in CostPool : c.frequency = "annual"},
                  {c \in CostPool : c.frequency = "annual"} \cup SpecialAssessment}
    /\ maint = MaintPool
    /\ loans \in Rows(LoanPool)
    /\ events \in Rows(EventPool)
    /\ today \in TodayPool
    /\ request = NoRequest
    /\ response = NoResponse
    /\ IdleAux

NextSeries ==
    \/ \E y \in {2024, 2025, 2026} : PropertyReport("P1", <<y>>, <<3>>, "default")
    \/ Deliver

SpecSeries == InitSeries /\ [][NextSeries]_vars

----------------------------------------------------------------------------
(* What the claims speak about: the last property report and its blocks.   *)

Reported == request.op = "property_report" /\ response.status = 200

Rep == response.body[1]

ReqProp == prop_of(request.property_id)

\* the blocks of the report, each with its clipped range and unrounded figures
Blocks ==
    LET p == request.property_id
        y == request.year
        m == request.month
    IN  <<[name |-> "monthly", block |-> Rep.monthly,
           range |-> m_range(p, y, m), locals |-> monthly_locals(p, y, m)],
          [name |-> "quarterly", block |-> Rep.quarterly,
           range |-> q_range(p, y, m), locals |-> quarterly_locals(p, y, m)],
          [name |-> "ytd", block |-> Rep.ytd,
           range |-> ytd_range(p, y, m), locals |-> ytd_locals(p, y, m)],
          [name |-> "annual", block |-> Rep.annual,
           range |-> y_range(p, y), locals |-> annual_locals(p, y)]>>
        \o (IF Rep.lifetime = <<>> THEN <<>>
            ELSE <<[name |-> "lifetime", block |-> Rep.lifetime[1],
                    range |-> <<lt_start(p, y), today>>,
                    locals |-> lifetime_locals(p, y)]>>)

----------------------------------------------------------------------------
(* C1: when the purchase date is after the end of the anchor month, the    *)
(* month range is zero-length and every derived metric of the monthly      *)
(* block is 0, whatever costs, loans, leases, payments and maintenance the *)
(* property has.                                                           *)
C1_PrePurchaseMonthAllZero ==
    (/\ Reported
     /\ ReqProp.purchase_date # None
     /\ DateOfDatetime(ReqProp.purchase_date) > _parse_month(request.year, request.month)[2])
    => /\ m_range(request.property_id, request.year, request.month)[1]
              = m_range(request.property_id, request.year, request.month)[2]
       /\ Rep.monthly.rent_charged = 0
       /\ Rep.monthly.rent_collected = 0
       /\ Rep.monthly.delinquency = 0
       /\ Rep.monthly.opex = 0
       /\ Rep.monthly.capex = 0
       /\ Rep.monthly.noi = 0
       /\ Rep.monthly.debt_service = 0
       /\ Rep.monthly.cash_flow = 0

(* C2: a calendar range (start, end) is left unchanged when the property   *)
(* has no purchase date, becomes (end, end) when it ends before the        *)
(* purchase date, and otherwise becomes (max(start, purchase date), end);  *)
(* the month, quarter, year, prior-year and year-to-date ranges are each   *)
(* clipped this way, independently of one another.                         *)
Clipped(range, purchase_date) ==
    IF purchase_date = None THEN range
    ELSE IF range[2] < purchase_date[1] THEN <<range[2], range[2]>>
    ELSE <<Max(range[1], purchase_date[1]), range[2]>>

PeriodsResolved == request.op = "periods" /\ response.status = 200

C2_RangesClippedAtPurchase ==
    PeriodsResolved =>
        LET pd == ReqProp.purchase_date
            y == request.year
            m == request.month
        IN  /\ Rep.month = Clipped(_parse_month(y, m), pd)
            /\ Rep.quarter = Clipped(_quarter_range(y, m), pd)
            /\ Rep.year = Clipped(_year_range(y), pd)
            /\ Rep.prior_year = Clipped(_prior_year_range(y), pd)
            /\ Rep.ytd = Clipped(<<MkDate(y, 1, 1), _parse_month(y, m)[2]>>, pd)

\* a purchase in mid-month: the month, quarter, year and year-to-date ranges
\* start at the purchase date and the prior year collapses to its last day
C2_Witness ==
    /\ PeriodsResolved
    /\ ReqProp.purchase_date # None
    /\ Rep.month[1] = ReqProp.purchase_date[1]
    /\ Rep.month[1] > _parse_month(request.year, request.month)[1]
    /\ Rep.month[2] > Rep.month[1]
    /\ Rep.quarter[1] = Rep.month[1]
    /\ Rep.year[1] = Rep.month[1]
    /\ Rep.ytd = Rep.month
    /\ Rep.prior_year[1] = Rep.prior_year[2]
    /\ Rep.prior_year[2] = MkDate(request.year - 1, 12, 31)

(* C3: in every period block of the report, noi is rent_collected minus    *)
(* opex over the range of the block: the block reports the rent collected  *)
(* in its range and its opex, each rounded to cents, and its noi is their  *)
(* difference rounded to cents (so the three fields agree within a cent).  *)
C3_NoiIsCollectedMinusOpex ==
    Reported =>
        \A i \in 1..Len(Blocks) :
            LET b == Blocks[i]
                collected == rent_collected(request.property_id, b.range[1], b.range[2])
            IN  /\ b.block.rent_collected = Round2(collected)
                /\ b.block.opex = Round2(b.locals.opex)
                /\ b.block.noi = Round2(collected - b.locals.opex)
                /\ Abs(b.block.noi - (b.block.rent_collected - b.block.opex)) <= 1

C3_Witness ==
    /\ Reported
    /\ Len(Blocks) = 5
    /\ \A i \in 1..5 : Blocks[i].block.opex > 0
    /\ \E i \in 1..5 : Blocks[i].block.rent_collected > 0 /\ Blocks[i].block.noi > 0
    /\ \E i \in 1..5 : Blocks[i].block.noi < 0

(* C4: in every period block of the report, cash_flow is the noi of the    *)
(* block minus the debt service the block reports for its range: the block *)
(* reports the debt service rounded to cents, and its cash_flow is the     *)
(* unrounded noi minus the unrounded debt service, rounded to cents.       *)
C4_CashFlowIsNoiMinusDebt ==
    Reported =>
        \A i \in 1..Len(Blocks) :
            LET b == Blocks[i]
                debt == monthly_debt_service(request.property_id) * b.locals.months
            IN  /\ b.block.debt_service = Round2(debt)
                /\ b.block.noi = Round2(b.locals.noi)
                /\ b.block.cash_flow = Round2(b.locals.noi - debt)
                /\ Abs(b.block.cash_flow - (b.block.noi - b.block.debt_service)) <= 1

C4_Witness ==
    /\ Reported
    /\ Len(Blocks) = 5
    /\ \A i \in 1..5 : Blocks[i].block.debt_service > 0
    /\ \E i \in 1..5 : Blocks[i].block.cash_flow > 0
    /\ \E i \in 1..5 : Blocks[i].block.cash_flow < 0 /\ Blocks[i].block.noi > 0

(* C5: rent_roll over a range is the sum of the rent charges dated in the  *)
(* range when that sum is positive, and otherwise the monthly rent of the  *)
(* leases active at the end of the range times the months of the range, so *)
(* that a lease not active at the range end contributes nothing.           *)
ActiveAtRangeEnd(l, d_end) ==
    /\ l.status = "active"
    /\ l.lease_start <= d_end
    /\ (l.lease_end = NoDate \/ l.lease_end >= d_end)

ClaimedRentRoll(p, d_start, d_end) ==
    LET actual == rent_charged(p, d_start, d_end)
    IN  IF actual > 0 THEN actual
        ELSE SumField({l \in leases : l.unit_id \in unit_ids(p) /\ ActiveAtRangeEnd(l, d_end)},
                      "monthly_rent") * months_in_period(d_start, d_end)

C5_RentRollLeasesActiveAtRangeEnd ==
    Reported =>
        \A i \in 1..Len(Blocks) :
            Blocks[i].block.rent_charged
                = Round2(ClaimedRentRoll(request.property_id, Blocks[i].range[1], Blocks[i].range[2]))

(* C6: a one_time cost adds nothing to the fixed-cost part of opex in any  *)
(* block, whatever its amount, category and is_active: the opex of a block *)
(* is the maintenance opex of its range plus, for each month of the block, *)
(* the amount of every active monthly cost, a third of every active        *)
(* quarterly cost and a twelfth of every active annual cost.               *)
RecurringCosts(p) ==
    {c \in costs : /\ c.property_id = p
                   /\ c.is_active
                   /\ c.frequency \in {"monthly", "quarterly", "annual"}}

RECURSIVE RecurringMonthly(_)
RecurringMonthly(cs) ==
    IF cs = {} THEN 0
    ELSE LET c == CHOOSE x \in cs : TRUE
             part == CASE c.frequency = "monthly" -> c.amount
                       [] c.frequency = "quarterly" -> c.amount \div 3
                       [] c.frequency = "annual" -> c.amount \div 12
         IN  part + RecurringMonthly(cs \ {c})

C6_OneTimeCostsAddNothing ==
    Reported =>
        LET p == request.property_id
            one_time == {c \in costs : c.property_id = p /\ c.frequency = "one_time"}
        IN  /\ property_costs_monthly_equiv(one_time) = 0
            /\ monthly_fixed_costs(p) = RecurringMonthly(RecurringCosts(p))
            /\ \A i \in 1..Len(Blocks) :
                   LET b == Blocks[i]
                   IN  b.block.opex
                           = Round2(maintenance_opex(p, b.range[1], b.range[2])
                                    + RecurringMonthly(RecurringCosts(p)) * b.locals.months)

C6_Witness ==
    /\ Reported
    /\ Len(Blocks) = 5
    /\ \E c \in costs : /\ c.property_id = request.property_id
                        /\ c.frequency = "one_time"
                        /\ c.is_active
                        /\ c.amount > 0
                        /\ \A i \in 1..5 : Round2(c.amount) > Blocks[i].block.opex
    /\ \E c \in costs : c.frequency = "annual" /\ c.is_active
    /\ Rep.monthly.opex > 0

(* C7: _irr returns None for a list of fewer than two entries and for a   *)
(* list whose amounts are all >= 0 or all <= 0, and in neither case does   *)
(* it enter the Newton iteration.                                          *)
IrrCalled == irr_out.exit # "not_run"

IrrAmounts == {irr_in[i][2] : i \in 1..Len(irr_in)}

C7_IrrGuardsReturnNone ==
    (/\ IrrCalled
     /\ \/ Len(irr_in) < 2
        \/ \A a \in IrrAmounts : a >= 0
        \/ \A a \in IrrAmounts : a <= 0)
    => irr_out.kind = "none" /\ ~irr_out.looped

\* inflows together with a zero flow, on different dates: no outflow at all
C7_Witness ==
    /\ IrrCalled
    /\ Len(irr_in) = 3
    /\ 0 \in IrrAmounts
    /\ \E a \in IrrAmounts : a > 0
    /\ \A a \in IrrAmounts : a >= 0
    /\ \E i, j \in 1..3 : irr_in[i][1] # irr_in[j][1]
    /\ irr_out.kind = "none"

(* C8: whenever _irr returns a rate for a list with both an outflow and an *)
(* inflow, the net present value of the list at that rate is 0 (within     *)
(* 1e-6).  For flows that all share one date every discount factor is 1,   *)
(* so the net present value at any rate is the sum of the amounts.         *)
C8_ReturnedRateIsRoot ==
    (/\ IrrCalled
     /\ irr_out.kind = "rate"
     /\ \A i \in 1..Len(irr_in) : irr_in[i][1] = irr_in[1][1])
    => npv_same_date(irr_in) = 0

(* C9: when the iteration stops without converging, as it does at once     *)
(* when the derivative is below 1e-12 because all the flows share one      *)
(* date, _irr returns None and never a value that is not a root.           *)
C9_NoConvergenceReturnsNone ==
    (IrrCalled /\ irr_out.exit = "flat") => irr_out.kind = "none"

(* C10: when _property_metrics fails for one property of the household,   *)
(* portfolio_report does not raise: it returns the full report of every    *)
(* other property, in the order of the list, leaves the failing property   *)
(* out, and computes portfolio_total from the reports that succeeded only, *)
(* whatever the position of the failing property in the list.              *)
PortfolioDone == request.op = "portfolio_report" /\ pf_pc = "done"

RECURSIVE SumOfReports(_, _, _)
SumOfReports(rs, blk, key) ==
    IF Len(rs) = 0 THEN 0
    ELSE rs[Len(rs)][blk][key] + SumOfReports(SubSeq(rs, 1, Len(rs) - 1), blk, key)

C10_PortfolioSkipsFailingProperty ==
    PortfolioDone =>
        /\ response.status = 200
        /\ LET body == Rep
               listed == {pf_props[i] : i \in 1..Len(pf_props)}
               failed == {pf_skipped[i] : i \in 1..Len(pf_skipped)}
               present == {r.id : r \in properties_tbl}
               Kept(id) == id \notin failed
           IN  /\ [i \in 1..Len(body.properties) |-> body.properties[i].property_id]
                      = SelectSeq(pf_props, Kept)
               /\ failed \subseteq listed \ present
               /\ \A id \in listed \cap present :
                      \E i \in 1..Len(body.properties) :
                          body.properties[i]
                              = _property_metrics(id, request.year, request.month, FALSE).body[1]
               /\ \A blk \in {"monthly", "ytd", "annual"} :
                      \A key \in {"rent_charged", "rent_collected", "opex", "noi",
                                  "debt_service", "cash_flow"} :
                          body.portfolio_total[blk][key]
                              = SumOfReports(body.properties, blk, key)
               /\ body.portfolio_total.monthly.rentable_units
                      = SumOfReports(body.properties, "monthly", "rentable_units")

\* the first property of the list failed and the second was reported
C10_Witness ==
    /\ PortfolioDone
    /\ response.status = 200
    /\ Len(pf_props) >= 2
    /\ pf_skipped = <<pf_props[1]>>
    /\ Len(Rep.properties) = Len(pf_props) - 1
    /\ Rep.properties[1].property_id = pf_props[2]
    /\ Rep.portfolio_total.annual.rent_collected > 0
    /\ Rep.portfolio_total.annual.debt_service > 0

(* C11: every numeric field that portfolio_total carries in its monthly,   *)
(* ytd and annual buckets, each expense-breakdown key included, is the sum *)
(* of that field over the reports of the properties that were computed;    *)
(* rentable_units and occupied_units are summed too.  The one exception is *)
(* ytd.months, which is the anchor month number and not a sum.  For two    *)
(* properties the total monthly noi is the sum of their monthly noi.       *)
PortfolioReturned == PortfolioDone /\ response.status = 200

RECURSIVE SumOfBreakdown(_, _, _)
SumOfBreakdown(rs, blk, c) ==
    IF Len(rs) = 0 THEN 0
    ELSE rs[Len(rs)][blk].expense_breakdown[c]
             + SumOfBreakdown(SubSeq(rs, 1, Len(rs) - 1), blk, c)

SummedFields(total, rs, skip) ==
    /\ \A blk \in DOMAIN total :
           \A key \in (DOMAIN total[blk]) \ ({"expense_breakdown"} \cup skip) :
               total[blk][key] = SumOfReports(rs, blk, key)
    /\ \A blk \in {b \in DOMAIN total : "expense_breakdown" \in DOMAIN total[b]} :
           \A c \in DOMAIN total[blk].expense_breakdown :
               total[blk].expense_breakdown[c] = SumOfBreakdown(rs, blk, c)

C11_PortfolioTotalsAreSums ==
    PortfolioReturned =>
        /\ SummedFields(Rep.portfolio_total, Rep.properties, {"months"})
        /\ DOMAIN Rep.portfolio_total = {"monthly", "ytd", "annual"}
        /\ Rep.portfolio_total.ytd.months = request.month
        /\ Len(Rep.properties) = 2 =>
               Rep.portfolio_total.monthly.noi
                   = Rep.properties[1].monthly.noi + Rep.properties[2].monthly.noi

\* the statement without the exception: ytd.months is a sum as well
C11_EveryFieldIsASum ==
    PortfolioReturned => SummedFields(Rep.portfolio_total, Rep.properties, {})

\* two reports with different non-zero figures, units on one of them
C11_Witness ==
    /\ PortfolioReturned
    /\ Len(Rep.properties) = 2
    /\ Rep.properties[1].monthly.noi # 0
    /\ Rep.properties[2].monthly.noi # 0
    /\ Rep.properties[1].monthly.noi # Rep.properties[2].monthly.noi
    /\ Rep.properties[1].ytd.expense_breakdown.insurance > 0
    /\ Rep.properties[2].ytd.expense_breakdown.insurance > 0
    /\ Rep.portfolio_total.monthly.rentable_units >= 1
    /\ Rep.portfolio_total.monthly.occupied_units >= 1

(* C12: cap_rate is None when the current_value of the property is <= 0   *)
(* or missing; otherwise it is the noi of the annual block divided by      *)
(* current_value, times 100, rounded to two decimals.  With v the value in *)
(* units of 100 dollars and c the rate in hundredths of a percent, c is    *)
(* the integer nearest to noi (in cents) / v.                              *)
NearestRatio(c, n, v, slack) == 2 * Abs(c * v - n) <= v + slack

C12_CapRateIsAnnualNoiOverValue ==
    Reported =>
        LET value == ReqProp.current_value
            v == value \div Cents(10000)
        IN  /\ value % Cents(10000) = 0
            /\ IF value <= 0
               THEN Rep.annual.cap_rate = None
               ELSE /\ Len(Rep.annual.cap_rate) = 1
                    /\ NearestRatio(Rep.annual.cap_rate[1], Rep.annual.noi, v, 2)
            /\ Rep.lifetime # <<>> => Rep.lifetime[1].cap_rate = Rep.annual.cap_rate

\* a property worth 150000 with a positive annual noi and a loan
C12_Witness ==
    /\ Reported
    /\ ReqProp.current_value = Cents(15000000)
    /\ Rep.annual.noi > 0
    /\ Rep.annual.debt_service > 0
    /\ Rep.annual.cap_rate # None
    /\ Rep.annual.cap_rate[1] > 0
    /\ Rep.annual.cap_rate[1] * 1500 # Rep.annual.noi

----------------------------------------------------------------------------
(* tax_export *)

TaxReturned == request.op = "tax_export" /\ response.status = 200

Csv == response.body[1]

RECURSIVE SumOfColumn(_, _)
SumOfColumn(rows, col) ==
    IF rows = <<>> THEN 0
    ELSE rows[Len(rows)][col].cents + SumOfColumn(SubSeq(rows, 1, Len(rows) - 1), col)

\* C13: the CSV of tax_export ends with a "PORTFOLIO TOTAL" row whose numeric
\* columns 2..12 (gross rents to loan balance) each hold the sum of that
\* column over the property rows.
C13_TotalRowSumsEveryNumericColumn ==
    TaxReturned =>
        /\ Csv.total[1] = TextCell("PORTFOLIO TOTAL")
        /\ \A col \in 2..12 :
               /\ Csv.total[col].kind = "amount"
               /\ Csv.total[col].cents = SumOfColumn(Csv.rows, col)

\* C14: the header of the CSV is the thirteen names of the specification in
\* their order, and every property row and the total row has thirteen cells
\* in that order.
C14_HeaderNamesAndOrder ==
    TaxReturned =>
        /\ Csv.header =
               <<"Property Address", "Gross Rents Received", "Management Fees", "Insurance",
                 "Property Taxes", "HOA Fees", "Repairs & Maintenance", "Other Fixed Costs",
                 "Total Operating Expenses", "Net Operating Income", "Capital Expenditures",
                 "Loan Balance (End of Year)", "Notes">>
        /\ Len(Csv.total) = 13
        /\ \A i \in 1..Len(Csv.rows) : Len(Csv.rows[i]) = 13

----------------------------------------------------------------------------
(* not found *)

\* the step in which property_report answers a request for an id that is
\* not a property of the user's household
PropertyReportNoMatch ==
    /\ request = NoRequest
    /\ request'.op = "property_report"
    /\ ~\E r \in household_properties : r.id = request'.property_id

\* the step in which tax_export answers a household without properties
TaxExportNoMatch ==
    /\ request = NoRequest
    /\ request'.op = "tax_export"
    /\ household_properties = {}

\* the step in which portfolio_report answers after it listed no property
PortfolioReportNoMatch ==
    /\ request.op = "portfolio_report"
    /\ pf_pc = "loop"
    /\ pf_pc' = "done"
    /\ pf_props = <<>>

\* C15: a request with no matching record ends in not-found (404), never in
\* a defaulted result: property_report for an id that is unknown or of
\* another household, and portfolio_report and tax_export for a household
\* without properties.
C15_NoMatchIsNotFound ==
    [][(PropertyReportNoMatch \/ TaxExportNoMatch \/ PortfolioReportNoMatch)
           => response'.status = 404]_vars

----------------------------------------------------------------------------
(* repeated requests *)

\* a step between two answers to one request over one set of stored rows
SameRequestSameRows == request # NoRequest /\ request' = request /\ UNCHANGED store

\* C16: property_report called again with the same arguments on the same
\* stored rows returns the same result in every field, annual.irr and the
\* lifetime block included.
C16_SameArgumentsSameResult ==
    [][(request.op = "property_report" /\ SameRequestSameRows) => response' = response]_vars

----------------------------------------------------------------------------
(* the handlers only read *)

\* a step of one of the three handlers, or of its caller taking the answer
HandlerStep == request' # request \/ response' # response \/ pf_vars' # pf_vars

\* C17: property_report, portfolio_report and tax_export leave every stored
\* row unchanged, when they answer 200 and when they answer an error: the
\* store after each of their steps is the store before it.
C17_HandlersLeaveStoreUnchanged == [][HandlerStep => UNCHANGED store]_vars

\* tax_export has answered 200 over a store that holds a loan and a cost
\* that is not active
C17_Witness ==
    /\ TaxReturned
    /\ \E c \in costs : ~c.is_active
    /\ loans # {}

----------------------------------------------------------------------------
(* parse_inbox_path *)

\* parse_inbox_path has returned for a path financial/...
ParsedFinancial ==
    /\ request.op = "parse_inbox_path"
    /\ response # NoResponse
    /\ request.parts[1] = <<"f", "i", "n", "a", "n", "c", "i", "a", "l">>

Parsed == response.body[1]

FourDigits(part) == Len(part) = 4 /\ \A i \in 1..4 : part[i] \in DOMAIN DigitValue

ValueOfDigits(part) ==
    DigitValue[part[1]] * 1000 + DigitValue[part[2]] * 100
        + DigitValue[part[3]] * 10 + DigitValue[part[4]]

\* C18: on a path financial/{type}/... parse_inbox_path returns ParseError
\* when the path has fewer than 3 parts or the lower-cased type is not a
\* valid document type; otherwise, with exactly 3 parts it returns a
\* FinancialImport with reference_year None, and with 4 or more parts a third
\* part of exactly four digits gives reference_year equal to it when it is in
\* 1990..2100 and ParseError when it is not, and a third part that is not
\* four digits gives a FinancialImport with reference_year None.
C18_FinancialPathParsing ==
    ParsedFinancial =>
        LET parts == request.parts
        IN  IF Len(parts) < 3 \/ lower(parts[2]) \notin VALID_DOCUMENT_TYPES
            THEN Parsed.kind = "ParseError"
            ELSE IF Len(parts) >= 4 /\ FourDigits(parts[3])
            THEN IF ValueOfDigits(parts[3]) \in 1990..2100
                 THEN /\ Parsed.kind = "FinancialImport"
                      /\ Parsed.reference_year = <<ValueOfDigits(parts[3])>>
                 ELSE Parsed.kind = "ParseError"
            ELSE /\ Parsed.kind = "FinancialImport"
                 /\ Parsed.reference_year = None

----------------------------------------------------------------------------
(* the prior year *)

\* the whole prior calendar year lies before the purchase date
PriorYearBeforePurchase ==
    /\ Reported
    /\ ReqProp.purchase_date # None
    /\ DateOfDatetime(ReqProp.purchase_date) > MkDate(request.year - 1, 12, 31)

\* C19: when the prior calendar year lies entirely before the purchase date
\* the prior-year range is zero-length, annual.noi_prior_year is 0 and
\* annual.noi_yoy_pct is None, whatever recurring fixed costs the property
\* has; and in every report noi_yoy_pct is None exactly when the prior-year
\* NOI is 0.
C19_PriorYearBeforePurchaseIsZero ==
    /\ PriorYearBeforePurchase =>
           /\ py_range(request.property_id, request.year)[1]
                  = py_range(request.property_id, request.year)[2]
           /\ Rep.annual.noi_prior_year = 0
           /\ Rep.annual.noi_yoy_pct = None
    /\ Reported =>
           (Rep.annual.noi_yoy_pct = None <=> py_noi(request.property_id, request.year) = 0)

----------------------------------------------------------------------------
(* the ranges handed to the aggregator *)

\* the step in which property_report answers 200
PropertyReportAnswers ==
    /\ request = NoRequest
    /\ request'.op = "property_report"
    /\ response'.status = 200

\* C20: every (start, end) that _property_metrics hands to rent_roll,
\* rent_collected, maintenance_opex and maintenance_capex has end >= start,
\* and the month count used with it is at least 1, for every anchor year
\* (one later than the current year included) and with the lifetime block.
C20_AggregatorRangesWellFormed ==
    [][PropertyReportAnswers =>
           \A r \in aggregator_ranges(request'.property_id, request'.year, request'.month,
                                      request'.period = "ltd") :
               r.end >= r.start /\ r.months >= 1]_vars

----------------------------------------------------------------------------
(* fixed costs and debt service over the months of a range *)

\* the inclusive count of calendar months from the start to the end of a range
MonthsInRange(range) ==
    (YearOf(range[2]) - YearOf(range[1])) * 12 + MonthOf(range[2]) - MonthOf(range[1]) + 1

\* the maintenance of the requested property that is not capex, dated in the range
RepairsInRange(range) ==
    SumField({x \in maint : /\ x.property_id = request.property_id
                            /\ ~x.is_capex
                            /\ x.expense_date >= range[1]
                            /\ x.expense_date <= range[2]}, "amount")

----------------------------------------------------------------------------
(* degenerate inputs *)

\* the sentinels of the four ratios
SentinelsOfRatios ==
    /\ rentable_units(request.property_id) = {} => Rep.monthly.occupancy_pct = 0
    /\ total_equity_invested(request.property_id) <= 0
           => Rep.quarterly.cash_on_cash_ytd = None
    /\ py_noi(request.property_id, request.year) = 0 => Rep.annual.noi_yoy_pct = None
    /\ ReqProp.current_value <= 0 => Rep.annual.cap_rate = None

\* the anchor month ends before the purchase date
MonthBeforePurchase ==
    /\ ReqProp.purchase_date # None
    /\ DateOfDatetime(ReqProp.purchase_date) > _parse_month(request.year, request.month)[2]

\* C22: _property_metrics does not raise on degenerate inputs and gives the
\* sentinel of each affected metric: occupancy_pct 0 without rentable units,
\* cash_on_cash_ytd None for total_equity_invested <= 0, noi_yoy_pct None
\* for a prior-year NOI of 0, cap_rate None for current_value <= 0, and 0
\* for the sums over a month that lies before the purchase date.
C22_DegenerateInputsGiveSentinels ==
    /\ (request.op = "property_report" /\ PropertyRows(request.property_id) # {})
           => response.status = 200
    /\ Reported =>
           /\ SentinelsOfRatios
           /\ MonthBeforePurchase =>
                  /\ Rep.monthly.rent_charged = 0
                  /\ Rep.monthly.rent_collected = 0
                  /\ Rep.monthly.capex = 0

----------------------------------------------------------------------------
(* the management fee *)

\* the blocks that carry an expense_breakdown
BreakdownBlocks == SelectSeq(Blocks, LAMBDA b : b.name # "quarterly")

\* management_fee_pct percent of the rent charges dated in the range, in cents
FeeOnRentCharges(range) ==
    MulDivRound(rent_charged(request.property_id, range[1], range[2]),
                ReqProp.management_fee_pct, 120000)

\* C23: in every expense_breakdown management_fee is 0 unless the property
\* is managed, and for a managed property it is management_fee_pct percent
\* of the rent billed in the period by RentCharge records (not the rent
\* collected, not the rent implied by the leases); the annual block and the
\* tax export of the same year give the same fee.
C23_ManagementFeeOnBilledRent ==
    Reported =>
        /\ \A i \in 1..Len(BreakdownBlocks) :
               BreakdownBlocks[i].block.expense_breakdown.management_fee
                   = IF ReqProp.is_property_managed
                     THEN FeeOnRentCharges(BreakdownBlocks[i].range)
                     ELSE 0
        /\ Rep.annual.expense_breakdown.management_fee
               = Round2(tax_figures(request.property_id, request.year).mgmt_fees)

----------------------------------------------------------------------------
(* the cash-flow series of the IRR *)

\* the series _property_metrics builds for the request, empty when it builds none
Series ==
    IF events # {} \/ (total_equity_invested(request.property_id) # 0
                          /\ resolved_purchase_date(request.property_id) # NoDate)
    THEN cf_list(request.property_id, request.year)
    ELSE <<>>

\* the recorded events of the property as flows, by date
EventFlows ==
    LET es == {e \in events : e.property_id = request.property_id}
        sorted == SortedBy(es, "event_date")
    IN  [i \in 1..Len(sorted) |-> <<sorted[i].event_date, sorted[i].amount>>]

\* purchase_date, else the earliest payment on a lease of the property, else NoDate
AcquisitionDate ==
    LET ps == {x \in payments : x.lease_id \in lease_ids(request.property_id)}
    IN  IF ReqProp.purchase_date # None THEN ReqProp.purchase_date[1]
        ELSE IF ps = {} THEN NoDate
        ELSE CHOOSE d \in {x.payment_date : x \in ps} :
                 \A x \in ps : d <= x.payment_date

\* no acquisition event, equity invested, and a date to put it on
SyntheticAcquisitionDue ==
    /\ ~\E e \in events : e.property_id = request.property_id /\ e.event_type = "acquisition"
    /\ total_equity_invested(request.property_id) > 0
    /\ AcquisitionDate # NoDate

\* C24: the series of the IRR holds the synthetic outflow (acquisition date,
\* -total_equity_invested) exactly when no capital event is an acquisition,
\* total_equity_invested > 0 and an acquisition date resolves (purchase_date,
\* else the earliest payment date); it stands before all recorded events,
\* and with a recorded acquisition the series starts with the recorded
\* events alone, so the acquisition is not counted twice.
C24_SyntheticAcquisitionOnlyWhenDue ==
    Reported =>
        LET n == Len(EventFlows)
        IN  IF SyntheticAcquisitionDue
            THEN /\ Len(Series) >= n + 1
                 /\ Series[1] = <<AcquisitionDate,
                                  0 - total_equity_invested(request.property_id)>>
                 /\ SubSeq(Series, 2, n + 1) = EventFlows
            ELSE /\ Len(Series) >= n
                 /\ SubSeq(Series, 1, n) = EventFlows
                 /\ n = 0 => Series = <<>>

\* an acquisition is recorded for a property with a purchase date and equity
C24_Witness ==
    /\ Reported
    /\ \E e \in events : e.event_type = "acquisition"
    /\ Cardinality(events) = 2
    /\ ReqProp.purchase_date # None
    /\ total_equity_invested(request.property_id) > 0
    /\ Len(Series) > 2

\* the synthetic acquisition, when due, and the recorded events
SeriesHead ==
    (IF SyntheticAcquisitionDue
     THEN <<<<AcquisitionDate, 0 - total_equity_invested(request.property_id)>>>>
     ELSE <<>>) \o EventFlows

\* the year of the earliest date among the flows of the head
EarliestYear ==
    YearOf(CHOOSE d \in {SeriesHead[i][1] : i \in 1..Len(SeriesHead)} :
               \A i \in 1..Len(SeriesHead) : d <= SeriesHead[i][1])

\* the operating flows: what follows the head, the terminal value left out
OperatingFlows ==
    SubSeq(Series, Len(SeriesHead) + 1,
           Len(Series) - (IF current_equity(request.property_id) > 0 THEN 1 ELSE 0))

\* the range of year yr clipped by the purchase date, and by today in the
\* current year
YearRangeBounded(yr) ==
    LET b == _bound_by_purchase(MkDate(yr, 1, 1), MkDate(yr, 12, 31), ReqProp.purchase_date)
    IN  IF yr = YearOf(today) /\ today >= b[1] /\ today < b[2] THEN <<b[1], today>> ELSE b

\* collected - opex - debt_service over the bounded range of year yr
YearOperatingFlow(yr) ==
    LET r == YearRangeBounded(yr)
        p == request.property_id
    IN  rent_collected(p, r[1], r[2])
            - (RepairsInRange(r) + monthly_fixed_costs(p) * MonthsInRange(r))
            - monthly_debt_service(p) * MonthsInRange(r)

\* the ranges the loop over the years hands to the aggregator
YearCalls ==
    {r \in aggregator_ranges(request.property_id, request.year, request.month, FALSE) :
         r.what = "irr_year"}

\* C25: the series holds one operating flow for each calendar year from the
\* year of the earliest date among the synthetic acquisition and the capital
\* events through the target year, each collected - opex - debt_service over
\* that year's bounded range; the ranges of two years do not overlap, so no
\* payment or expense is counted twice.
C25_OneOperatingFlowPerYear ==
    (Reported /\ SeriesHead # <<>>) =>
        /\ Len(OperatingFlows) = Max(0, request.year - EarliestYear + 1)
        /\ \A k \in 1..Len(OperatingFlows) :
               OperatingFlows[k][2] = YearOperatingFlow(EarliestYear + k - 1)
        /\ \A r1, r2 \in YearCalls :
               r1 # r2 => (r1.end < r2.start \/ r2.end < r1.start)


----------------------------------------------------------------------------
(* C26: the tax export row of a property for year Y carries the figures of *)
(* the annual block of that property's report for year Y: Gross Rents      *)
(* Received is annual.rent_collected, Repairs & Maintenance is the         *)
(* non-capex maintenance of the year's range, Total Operating Expenses is  *)
(* annual.opex and Net Operating Income is annual.noi.                     *)
TaxRowOfReport == tax_property_row(tax_figures(request.property_id, request.year))

C26_TaxRowCarriesAnnualFigures ==
    Reported =>
        /\ TaxRowOfReport[2].cents = Rep.annual.rent_collected
        /\ TaxRowOfReport[7].cents = Rep.annual.expense_breakdown.repairs
        /\ TaxRowOfReport[9].cents = Rep.annual.opex
        /\ TaxRowOfReport[10].cents = Rep.annual.noi


----------------------------------------------------------------------------
(* C27: in every report occupied_units is at most rentable_units and       *)
(* occupancy_pct lies between 0 and 100 (held in tenths of a percent),     *)
(* whatever the leases: several active leases on one unit, or an active    *)
(* lease whose lease_end is before the anchor month, change nothing.       *)
C27_OccupancyWithinBounds ==
    Reported =>
        /\ Rep.monthly.occupied_units <= Rep.monthly.rentable_units
        /\ Rep.monthly.occupancy_pct >= 0
        /\ Rep.monthly.occupancy_pct <= 1000


----------------------------------------------------------------------------
(* C28: with payment amounts that are not negative, the rent collected of  *)
(* the month is at most that of the quarter, which is at most that of the  *)
(* year, and the rent collected of the year to date is at most that of the *)
(* year: after clipping by the purchase date the month range lies inside   *)
(* the quarter range, and the quarter and ytd ranges inside the year range.*)
Inside(inner, outer) == outer[1] <= inner[1] /\ inner[2] <= outer[2]

RangesNested ==
    LET p == request.property_id
        y == request.year
        m == request.month
    IN  /\ Inside(m_range(p, y, m), q_range(p, y, m))
        /\ Inside(q_range(p, y, m), y_range(p, y))
        /\ Inside(ytd_range(p, y, m), y_range(p, y))

CollectedNested ==
    /\ Rep.monthly.rent_collected <= Rep.quarterly.rent_collected
    /\ Rep.quarterly.rent_collected <= Rep.annual.rent_collected
    /\ Rep.ytd.rent_collected <= Rep.annual.rent_collected

C28_CollectedGrowsWithThePeriod ==
    (Reported /\ \A x \in payments : x.amount >= 0) => (RangesNested /\ CollectedNested)


----------------------------------------------------------------------------
(* C29: in each block that carries an expense_breakdown (monthly, ytd,     *)
(* annual, lifetime), before rounding, property_tax + insurance + hoa +    *)
(* other_fixed + repairs is the opex of the block and loan_payment is its  *)
(* debt service; other_fixed is never negative; the management fee is part *)
(* of neither opex nor noi, which is the rent collected less the opex.     *)
BreakdownSum(b) ==
    LET p == request.property_id
    IN  (category_monthly_equiv(p, "property_tax") + category_monthly_equiv(p, "insurance")
            + category_monthly_equiv(p, "hoa") + monthly_other_fixed(p)) * b.locals.months
        + b.locals.opex_maint

----------------------------------------------------------------------------
(* C30: annual.property_tax_annual and annual.insurance_annual are 12      *)
(* times the monthly equivalent the expense breakdown uses for the same    *)
(* category (monthly x1, quarterly /3, annual /12, one_time 0), whatever   *)
(* the frequency of the active costs; for a property owned the whole year  *)
(* they are annual.expense_breakdown.property_tax and .insurance.          *)
OwnedWholeYear == annual_locals(request.property_id, request.year).months = 12

C30_AnnualRollupIsTwelveMonthlyEquivalents ==
    Reported =>
        /\ Rep.annual.property_tax_annual
               = Round2(12 * category_monthly_equiv(request.property_id, "property_tax"))
        /\ Rep.annual.insurance_annual
               = Round2(12 * category_monthly_equiv(request.property_id, "insurance"))
        /\ OwnedWholeYear =>
               /\ Rep.annual.property_tax_annual = Rep.annual.expense_breakdown.property_tax
               /\ Rep.annual.insurance_annual = Rep.annual.expense_breakdown.insurance

====
